---------------------------- MODULE Spec2Model ----------------------------
(***************************************************************************)
(* Model of the `plugin export` pipeline of rhdh-cli: the backend and the  *)
(* frontend exporters and the descriptor customizer they share.            *)
(*                                                                         *)
(* Strings of the program (package names, version specifiers, paths) are   *)
(* sequences of tokens; a token is the unit the program's string           *)
(* operations (startsWith, replace, slice, RegExp.test) act on here.       *)
(* A JavaScript object is an ordered map: a sequence of [k, v] entries     *)
(* with distinct keys, in insertion order.  An optional field is <<>>      *)
(* (undefined) or <<value>>.                                               *)
(***************************************************************************)
EXTENDS Integers, Sequences, FiniteSets, TLC

VARIABLES
    kind,        \* "backend" | "frontend": which exporter the command runs
    opts,        \* the command's options (OptionValues)
    yarnV1,      \* yarnVersion.startsWith('1.')
    srcPkg,      \* package.json of the plugin directory (read-only input)
    pc,          \* position of the exporter
    err,         \* "" or the kind of the error the export failed with
    embedded,    \* embeddedResolvedPackages (backend)
    rules,       \* sharedPackagesRules (backend)
    idx,         \* index of the embedded package being processed
    embPeer,     \* embeddedPeerDependencies (backend)
    tjson,       \* descriptors in dist-dynamic/: path -> package.json content
    tfiles,      \* other paths present in dist-dynamic/
    tlock,       \* dist-dynamic/yarn.lock: <<>> or <<set of package names>>
    lockExisted, \* yarnLockExists, as read before the lock file is copied
    running,     \* awaited operations in progress
    ops,         \* the awaited operations and stages completed, in order
    writes,      \* the absolute path of every removal and write performed
    natives,     \* native packages of the installed tree
    produced,    \* asset producers invoked (frontend): [producer, out, meta]
    firstMain,   \* <<>>, or <<dist-dynamic/package.json of the export run before>>
    world,       \* the files around the plugin that the export reads (read-only input)
    offending,   \* the packages listed by the message of NativePackageForbidden
    entry,       \* <<>>, or <<the modules the entrypoint validation has loaded>>
    walk         \* the calls of searchEmbedded in progress, when followed call by call

vars == <<kind, opts, yarnV1, srcPkg, pc, err, embedded, rules, idx, embPeer,
          tjson, tfiles, tlock, lockExisted, running, ops, writes, natives,
          produced, firstMain, world, offending, entry, walk>>

---------------------------------------------------------------------------
(* Bounds of the model *)

\* at most this many entries in the source descriptor's dependencies
MaxDeps == 2
\* at most this many package names in a lock file written by an install
MaxLock == 2

---------------------------------------------------------------------------
(* Strings as token sequences *)

StartsWith(s, tok) == Len(s) > 0 /\ s[1] = tok

EndsWith(s, tok) == Len(s) > 0 /\ s[Len(s)] = tok

\* s.slice(1): s without its first token
Slice1(s) == SubSeq(s, 2, Len(s))

\* s.slice(1, -1): s without its first and last token
SliceInner(s) == SubSeq(s, 2, Len(s) - 1)

\* s.replace(/^tok/, '')
StripPrefix(s, tok) == IF StartsWith(s, tok) THEN Slice1(s) ELSE s

\* index of the first occurrence of tok in s, 0 if none
FirstIndex(s, tok) ==
    IF \E i \in 1..Len(s) : s[i] = tok
    THEN CHOOSE i \in 1..Len(s) :
            s[i] = tok /\ \A j \in 1..(i - 1) : s[j] # tok
    ELSE 0

\* s.replace(tok, by): only the first occurrence is replaced
ReplaceFirst(s, tok, by) ==
    LET i == FirstIndex(s, tok)
    IN  IF i = 0 THEN s ELSE [s EXCEPT ![i] = by]

\* whether pat occurs in s as a contiguous run of tokens (RegExp.test of a
\* pattern without metacharacters, String.includes)
Includes(s, pat) ==
    \E i \in 0..(Len(s) - Len(pat)) :
        \A j \in 1..Len(pat) : s[i + j] = pat[j]

\* s.replace(/pat$/, by) for a pattern that is one literal token
ReplaceSuffix(s, tok, by) ==
    IF EndsWith(s, tok) THEN [s EXCEPT ![Len(s)] = by] ELSE s

---------------------------------------------------------------------------
(* JavaScript objects as ordered maps *)

EmptyMap == <<>>

Keys(m) == [i \in 1..Len(m) |-> m[i].k]

KeySet(m) == {m[i].k : i \in 1..Len(m)}

Has(m, key) == \E i \in 1..Len(m) : m[i].k = key

Get(m, key) == m[CHOOSE i \in 1..Len(m) : m[i].k = key].v

\* m[key] = val: an existing key keeps its place, a new key goes last
Put(m, key, val) ==
    IF Has(m, key)
    THEN [i \in 1..Len(m) |-> IF m[i].k = key THEN [k |-> key, v |-> val] ELSE m[i]]
    ELSE Append(m, [k |-> key, v |-> val])

\* delete m[key]
Del(m, key) == SelectSeq(m, LAMBDA e : e.k # key)

RECURSIVE Spread(_, _)
\* { ...a, ...b }
Spread(a, b) ==
    IF b = <<>> THEN a
    ELSE Spread(Put(a, Head(b).k, Head(b).v), Tail(b))

\* an absent object field read as `field || {}`
OrEmpty(opt) == IF opt = <<>> THEN EmptyMap ELSE opt[1]

Some(x) == <<x>>

None == <<>>

---------------------------------------------------------------------------
(* Package names, versions, specifiers and the packages on disk *)

BS == <<"@", "backstage", "/", "core">>

COMMON == <<"@", "x", "/", "foo", "-common">>

LIB == <<"lodash">>

SQLITE == <<"better-sqlite3">>

BackendName == <<"@", "x", "/", "foo", "-backend">>

FrontendName == <<"@", "x", "/", "bar">>

V1 == <<"1.0.0">>

V2 == <<"2.0.0">>

Versions == {V1, V2}

Caret(v) == <<"^">> \o v

Workspace(detail) == <<"workspace:">> \o detail

FileOutside == <<"file:", "../", "lodash">>

\* semver.satisfies(version, range) on the ranges of the model: a version,
\* ^version, ~version (no other version of the model shares a major or a
\* minor with it) and *; anything else is no valid range
Satisfies(version, range) ==
    \/ range = <<"*">>
    \/ range = version
    \/ range = <<"^">> \o version
    \/ range = <<"~">> \o version

PluginDir == <<"/repo/plugins/foo">>

CommonDir == <<"/repo/plugins/foo-common">>

LibDir == <<"/repo/node_modules/lodash">>

Descriptor(name, version, role, main, deps) ==
    [ name |-> name, version |-> version, role |-> role, bundled |-> FALSE,
      main |-> main, dependencies |-> deps, devDependencies |-> EmptyMap,
      peerDependencies |-> None, resolutions |-> None, overrides |-> None,
      scripts |-> EmptyMap, files |-> None, private |-> None,
      bundleDependencies |-> None, scalprum |-> None ]

Entry(key, val) == [k |-> key, v |-> val]

\* the sibling package of the monorepo
CommonPkg ==
    [ Descriptor(COMMON, V1, "common-library", <<"src/index", ".ts">>,
                 << Entry(BS, Caret(V1)), Entry(LIB, Caret(V1)) >>)
      EXCEPT !.devDependencies = << Entry(<<"jest">>, Caret(V1)) >>,
             !.scripts = << Entry(<<"build">>, <<"backstage-cli build">>) >>,
             !.bundled = COMMON \in world.bundled ]

\* a package installed from the registry
LibPkg ==
    [ Descriptor(LIB, V1, "", <<"index", ".js">>, EmptyMap)
      EXCEPT !.bundled = LIB \in world.bundled ]

\* package.json of the package in directory dir
PackageJsonAt(dir) ==
    IF dir = PluginDir THEN srcPkg
    ELSE IF Has(world.pkgs, dir) THEN Get(world.pkgs, dir)
    ELSE IF dir = CommonDir THEN CommonPkg
    ELSE LibPkg

\* getPackages(paths.targetDir).packages: the directories of the monorepo
MonoRepoPackages == world.mono

\* createRequire(dir).resolve(dep + '/package.json'): <<>> when the module
\* is not found, else <<the directory of the package>>
RequireResolve(dep) ==
    IF Has(world.req, dep) THEN Some(Get(world.req, dep)) ELSE None

---------------------------------------------------------------------------
(* common-utils: version check, shared-package rules, embedded paths *)

\* a check that takes any version of the package
checkWorkspacePackageVersionAny(requiredVersionSpec, pkgVersion, pkgDir) ==
    StartsWith(requiredVersionSpec, "workspace:")

checkWorkspacePackageVersion(requiredVersionSpec, pkgVersion, pkgDir) ==
    LET versionDetail == StripPrefix(requiredVersionSpec, "workspace:")
    IN  \/ pkgDir = versionDetail
        \/ versionDetail = <<"*">>
        \/ versionDetail = <<"~">>
        \/ versionDetail = <<"^">>
        \/ Satisfies(pkgVersion, versionDetail)

\* a matcher is a literal string or a regular expression
Literal(str) == [re |-> FALSE, pat |-> str]

Regex(pattern) == [re |-> TRUE, pat |-> pattern]

Test(str, expr) == IF expr.re THEN Includes(str, expr.pat) ELSE str = expr.pat

NoRules == [include |-> <<>>, exclude |-> <<>>]

\* a test that looks at the include rules first
isPackageSharedIncludeFirst(pkgName, r) ==
    IF \E i \in 1..Len(r.include) : Test(pkgName, r.include[i])
    THEN TRUE
    ELSE ~\E i \in 1..Len(r.exclude) : Test(pkgName, r.exclude[i])

isPackageShared(pkgName, r) ==
    IF \E i \in 1..Len(r.exclude) : Test(pkgName, r.exclude[i])
    THEN FALSE
    ELSE \E i \in 1..Len(r.include) : Test(pkgName, r.include[i])

Slug(packageName) == ReplaceFirst(StripPrefix(packageName, "@"), "/", "-")

\* the path without the rewriting of '@' and '/'
embeddedPackageRelativePathNoSlug(p) == <<"embedded", "/">> \o p.packageName

embeddedPackageRelativePath(p) == <<"embedded", "/">> \o Slug(p.packageName)

\* `file:./${embeddedPackageRelativePath(p)}`
EmbeddedFileSpec(p) == <<"file:", "./">> \o embeddedPackageRelativePath(p)

---------------------------------------------------------------------------
(* backend.ts: the embedding resolver *)

Ok(val) == [ok |-> TRUE, err |-> "", val |-> val]

Fail(kindOfError) == [ok |-> FALSE, err |-> kindOfError, val |-> <<>>]

\* pkg.name.replace(regex, by) for the regex of the package's role
RoleReplace(name, role, by) ==
    CASE role = "backend-plugin" -> ReplaceSuffix(name, "-backend", by)
      [] role = "node-library" -> ReplaceSuffix(name, "-node", by)
      [] role = "backend-plugin-module" ->
            LET i == FirstIndex(name, "-backend-module-")
            IN  IF i > 0 /\ i < Len(name)
                THEN SubSeq(name, 1, i - 1) \o <<by>>
                ELSE name
      [] OTHER -> name

\* a seed list that takes the siblings whatever is resolved already
SeedListAlways(pkg, packagesToEmbed, alreadyResolved) ==
    LET push(list, sibling) == IF sibling # pkg.name
                               THEN Append(list, sibling)
                               ELSE list
    IN  push(push(packagesToEmbed, RoleReplace(pkg.name, pkg.role, "-common")),
             RoleReplace(pkg.name, pkg.role, "-node"))

\* the seed list of one call: packagesToEmbed and the synthesized siblings
SeedList(pkg, packagesToEmbed, alreadyResolved) ==
    LET known(n) == \E i \in 1..Len(alreadyResolved) :
                        alreadyResolved[i].packageName = n
        push(list, sibling) == IF sibling # pkg.name /\ ~known(sibling)
                               THEN Append(list, sibling)
                               ELSE list
    IN  push(push(packagesToEmbed, RoleReplace(pkg.name, pkg.role, "-common")),
             RoleReplace(pkg.name, pkg.role, "-node"))

InSeq(x, seq) == \E i \in 1..Len(seq) : seq[i] = x

\* a resolution that takes the first of the packages of that name
ResolveOneFirstOfTwo(pkg, dep) ==
    LET inMonoRepo(dependencyVersion, dir, found) ==
            IF ~(IF StartsWith(dependencyVersion, "workspace:")
                 THEN checkWorkspacePackageVersion(dependencyVersion,
                                                   found.version, dir)
                 ELSE Satisfies(found.version, dependencyVersion))
            THEN Fail("WorkspaceVersionMismatch")
            ELSE Ok([dir |-> dir, pkg |-> found, alreadyPacked |-> FALSE])
        required(dependencyVersion, dir, found) ==
            IF ~Satisfies(found.version, dependencyVersion)
            THEN Fail("ResolvedVersionMismatch")
            ELSE Ok([dir |-> dir, pkg |-> found,
                     alreadyPacked |-> ~EndsWith(found.main, ".ts")])
        outside(dependencyVersion, at) ==
            IF at = None THEN Fail("ModuleNotFound")
            ELSE required(dependencyVersion, at[1], PackageJsonAt(at[1]))
        resolve(dependencyVersion, related) ==
            IF Len(related) = 0 /\ StartsWith(dependencyVersion, "workspace:")
            THEN Fail("MissingWorkspacePackage")
            ELSE IF Len(related) >= 1
            THEN inMonoRepo(dependencyVersion, related[1], PackageJsonAt(related[1]))
            ELSE outside(dependencyVersion, RequireResolve(dep))
    IN  resolve(Get(pkg.dependencies, dep),
                SelectSeq(MonoRepoPackages, LAMBDA d : PackageJsonAt(d).name = dep))

\* what one dependency of the seed list resolves to, or the error
ResolveOne(pkg, dep) ==
    LET inMonoRepo(dependencyVersion, dir, found) ==
            IF ~(IF StartsWith(dependencyVersion, "workspace:")
                 THEN checkWorkspacePackageVersion(dependencyVersion,
                                                   found.version, dir)
                 ELSE Satisfies(found.version, dependencyVersion))
            THEN Fail("WorkspaceVersionMismatch")
            ELSE Ok([dir |-> dir, pkg |-> found, alreadyPacked |-> FALSE])
        required(dependencyVersion, dir, found) ==
            IF ~Satisfies(found.version, dependencyVersion)
            THEN Fail("ResolvedVersionMismatch")
            ELSE Ok([dir |-> dir, pkg |-> found,
                     alreadyPacked |-> ~EndsWith(found.main, ".ts")])
        outside(dependencyVersion, at) ==
            IF at = None THEN Fail("ModuleNotFound")
            ELSE required(dependencyVersion, at[1], PackageJsonAt(at[1]))
        resolve(dependencyVersion, related) ==
            IF Len(related) > 1 THEN Fail("DuplicateMonorepoPackage")
            ELSE IF Len(related) = 0 /\ StartsWith(dependencyVersion, "workspace:")
            THEN Fail("MissingWorkspacePackage")
            ELSE IF Len(related) = 1
            THEN inMonoRepo(dependencyVersion, related[1], PackageJsonAt(related[1]))
            ELSE outside(dependencyVersion, RequireResolve(dep))
    IN  resolve(Get(pkg.dependencies, dep),
                SelectSeq(MonoRepoPackages, LAMBDA d : PackageJsonAt(d).name = dep))

\* the directories the loop over pkg.dependencies resolves with the seed list
ResolvedDirs(pkg, seeds) ==
    { ResolveOne(pkg, dep).val.dir :
        dep \in { k \in KeySet(pkg.dependencies) :
                    InSeq(k, seeds) /\ ResolveOne(pkg, k).ok } }

RECURSIVE searchEmbedded(_, _, _)
RECURSIVE SearchDeps(_, _, _, _, _)

\* the loop over pkg.dependencies from its i-th key on; resolved is the
\* list built so far by this call
SearchDeps(pkg, seeds, alreadyResolved, i, resolved) ==
    LET recursed(mine, sub) ==
            IF ~sub.ok THEN sub
            ELSE SearchDeps(pkg, seeds, alreadyResolved, i + 1, mine \o sub.val)
        pushed(found, mine) ==
            recursed(mine, searchEmbedded(found.pkg, seeds, alreadyResolved \o mine))
        fresh(found, seen) ==
            IF \E j \in 1..Len(seen) : seen[j].dir = found.dir
            THEN SearchDeps(pkg, seeds, alreadyResolved, i + 1, resolved)
            ELSE pushed(found,
                        Append(resolved,
                               [ dir |-> found.dir,
                                 packageName |-> found.pkg.name,
                                 version |-> found.pkg.version,
                                 parentPackageName |-> pkg.name,
                                 alreadyPacked |-> found.alreadyPacked ]))
        located(r) ==
            IF ~r.ok THEN r
            ELSE IF r.val.pkg.bundled THEN Fail("EmbeddedPackageBundled")
            ELSE fresh(r.val, alreadyResolved \o resolved)
        visit(dep) ==
            IF ~InSeq(dep, seeds)
            THEN SearchDeps(pkg, seeds, alreadyResolved, i + 1, resolved)
            ELSE located(ResolveOne(pkg, dep))
    IN  IF i > Len(pkg.dependencies) THEN Ok(resolved)
        ELSE visit(pkg.dependencies[i].k)

searchEmbedded(pkg, packagesToEmbed, alreadyResolved) ==
    SearchDeps(pkg, SeedList(pkg, packagesToEmbed, alreadyResolved),
               alreadyResolved, 1, <<>>)

---------------------------------------------------------------------------
(* common-utils: the descriptor customizer *)

AwsPin == <<"@", "aws-sdk", "/", "util-utf8-browser">>

AwsOverride == <<"{ '@smithy/util-utf8': '^2.0.0' }">>

AwsResolution == <<"npm:", "@smithy/util-utf8@~2">>

\* for (field in overriding) pkg[field] = overriding[field]
ApplyOverriding(pkg, overriding) ==
    [f \in DOMAIN pkg |->
        IF f \in DOMAIN overriding THEN overriding[f] ELSE pkg[f]]

\* pkg.files?.filter(f => !f.startsWith('dist-dynamic/'))
FilterFiles(files) ==
    IF files = None THEN None
    ELSE Some(SelectSeq(files[1], LAMBDA f : ~StartsWith(f, "dist-dynamic/")))

\* options.embedded.find(e => e.packageName === dep &&
\*                            checkWorkspacePackageVersion(spec, e))
FindEmbedded(o, dep, versionSpec) ==
    LET hit(i) == /\ o.embedded[i].packageName = dep
                  /\ checkWorkspacePackageVersion(versionSpec,
                         o.embedded[i].version, o.embedded[i].dir)
    IN  IF \E i \in 1..Len(o.embedded) : hit(i)
        THEN Some(o.embedded[CHOOSE i \in 1..Len(o.embedded) :
                      hit(i) /\ \A j \in 1..(i - 1) : ~hit(j)])
        ELSE None

\* the resolution that hands back the specifier of a monorepo package
ResolveWorkspaceKeepRange(o, dep, versionSpec) ==
    LET resolve(embeddedDep, related) ==
            IF embeddedDep # None THEN Ok(embeddedDep[1].version)
            ELSE IF ~o.monoRepoPackages THEN Ok(<<>>)
            ELSE IF Len(related) > 1 THEN Fail("DuplicateMonorepoPackage")
            ELSE IF /\ Len(related) = 1
                    /\ checkWorkspacePackageVersion(versionSpec,
                           PackageJsonAt(related[1]).version, related[1])
            THEN Ok(versionSpec)
            ELSE Ok(<<>>)
    IN  resolve(FindEmbedded(o, dep, versionSpec),
                SelectSeq(MonoRepoPackages, LAMBDA d : PackageJsonAt(d).name = dep))

\* the version a workspace: dependency resolves to; <<>> when it does not
\* resolve, and the error when two monorepo packages carry the name
ResolveWorkspace(o, dep, versionSpec) ==
    LET ranged(rangeSpecifier, version) ==
            IF rangeSpecifier = <<"^">> \/ rangeSpecifier = <<"~">>
            THEN rangeSpecifier \o version
            ELSE version
        inMonoRepo(dir, version) ==
            IF checkWorkspacePackageVersion(versionSpec, version, dir)
            THEN Ok(ranged(StripPrefix(versionSpec, "workspace:"), version))
            ELSE Ok(<<>>)
        resolve(embeddedDep, related) ==
            IF embeddedDep # None THEN Ok(embeddedDep[1].version)
            ELSE IF ~o.monoRepoPackages THEN Ok(<<>>)
            ELSE IF Len(related) > 1 THEN Fail("DuplicateMonorepoPackage")
            ELSE IF Len(related) = 1
            THEN inMonoRepo(related[1], PackageJsonAt(related[1]).version)
            ELSE Ok(<<>>)
    IN  resolve(FindEmbedded(o, dep, versionSpec),
                SelectSeq(MonoRepoPackages, LAMBDA d : PackageJsonAt(d).name = dep))

\* the move without the delete of line 120
MoveToPeerKeepDependency(st, dep, deps1) ==
    [st EXCEPT !.deps = deps1,
               !.peer = Some(Put(OrEmpty(st.peer), dep, Get(deps1, dep)))]

\* lines 117-120: the dependency goes to peerDependencies (created if
\* absent) with its specifier and leaves dependencies
MoveToPeer(st, dep, deps1) ==
    [st EXCEPT !.deps = Del(deps1, dep),
               !.peer = Some(Put(OrEmpty(st.peer), dep, Get(deps1, dep)))]

\* the body of the loop over the dependencies for one key; st carries the
\* dependencies and peerDependencies of the descriptor being customized
CustomizeDep(st, dep, o) ==
    LET place(deps1, embeddedDep) ==
            IF isPackageShared(dep, o.sharedPackages)
            THEN MoveToPeer(st, dep, deps1)
            ELSE IF o.isYarnV1 /\ embeddedDep # None
            THEN [st EXCEPT !.deps =
                     Put(deps1, dep, EmbeddedFileSpec(embeddedDep[1]))]
            ELSE [st EXCEPT !.deps = deps1]
        resolved(dependencyVersionSpec, res) ==
            IF ~res.ok THEN [st EXCEPT !.ok = FALSE, !.err = res.err]
            ELSE IF res.val = <<>>
            THEN [st EXCEPT !.ok = FALSE, !.err = "UnresolvedWorkspaceDep"]
            ELSE place(Put(st.deps, dep, res.val),
                       FindEmbedded(o, dep, dependencyVersionSpec))
        visit(dependencyVersionSpec) ==
            resolved(dependencyVersionSpec,
                     IF StartsWith(dependencyVersionSpec, "workspace:")
                     THEN ResolveWorkspace(o, dep, dependencyVersionSpec)
                     ELSE Ok(dependencyVersionSpec))
    IN  visit(Get(st.deps, dep))

RECURSIVE CustomizeDeps(_, _, _)
\* for (const dep in pkgToCustomize.dependencies): keys is what is left of
\* the keys the loop started with
CustomizeDeps(st, keys, o) ==
    IF keys = <<>> \/ ~st.ok THEN st
    ELSE CustomizeDeps(CustomizeDep(st, Head(keys), o), Tail(keys), o)

\* the customization without the reset of line 150
CustomizeKeepDev(pkg, o) ==
    LET finish(p1, st) ==
            IF ~st.ok THEN Fail(st.err)
            ELSE Ok([p1 EXCEPT
                    !.files = FilterFiles(p1.files),
                    !.dependencies = st.deps,
                    !.peerDependencies = st.peer,
                    !.overrides = Some(Spread(Spread(
                        << Entry(AwsPin, AwsOverride) >>, OrEmpty(p1.overrides)),
                        o.additionalOverrides)),
                    !.resolutions = Some(Spread(Spread(
                        << Entry(AwsPin, AwsResolution) >>, OrEmpty(p1.resolutions)),
                        o.additionalResolutions))])
        loop(p1) ==
            finish(p1, CustomizeDeps([ok |-> TRUE, err |-> "",
                                      deps |-> p1.dependencies,
                                      peer |-> p1.peerDependencies],
                                     Keys(p1.dependencies), o))
    IN  loop(ApplyOverriding(pkg, o.overriding))

\* customizeForDynamicUse up to the call of options.after: the descriptor
\* that is handed to the hook, or the error thrown
CustomizeBody(pkg, o) ==
    LET finish(p1, st) ==
            IF ~st.ok THEN Fail(st.err)
            ELSE Ok([p1 EXCEPT
                    !.files = FilterFiles(p1.files),
                    !.dependencies = st.deps,
                    !.peerDependencies = st.peer,
                    !.devDependencies = EmptyMap,
                    !.overrides = Some(Spread(Spread(
                        << Entry(AwsPin, AwsOverride) >>, OrEmpty(p1.overrides)),
                        o.additionalOverrides)),
                    !.resolutions = Some(Spread(Spread(
                        << Entry(AwsPin, AwsResolution) >>, OrEmpty(p1.resolutions)),
                        o.additionalResolutions))])
        loop(p1) ==
            finish(p1, CustomizeDeps([ok |-> TRUE, err |-> "",
                                      deps |-> p1.dependencies,
                                      peer |-> p1.peerDependencies],
                                     Keys(p1.dependencies), o))
    IN  loop(ApplyOverriding(pkg, o.overriding))

---------------------------------------------------------------------------
(* backend-utils: merging of peer dependencies *)

Intersects(r1, r2) == \E v \in Versions : Satisfies(v, r1) /\ Satisfies(v, r2)

\* how wide a range of the model is: a version, ~version, ^version, *
Width(range) ==
    CASE range = <<"*">> -> 3
      [] StartsWith(range, "^") -> 2
      [] StartsWith(range, "~") -> 1
      [] OTHER -> 0

\* a merge that keeps the range it has whatever the new one is
addToDependenciesForModuleKeep(dependency, dependencies, ignoreVersionCheck) ==
    IF ~Has(dependencies, dependency.k)
    THEN Ok(Put(dependencies, dependency.k, dependency.v))
    ELSE Ok(dependencies)

\* addToDependenciesForModule: the dependencies after the merge, or the error
addToDependenciesForModule(dependency, dependencies, ignoreVersionCheck) ==
    IF ~Has(dependencies, dependency.k)
    THEN Ok(Put(dependencies, dependency.k, dependency.v))
    ELSE LET merge(existing) ==
                 IF Intersects(existing, dependency.v)
                 THEN Ok(IF Width(dependency.v) < Width(existing)
                         THEN Put(dependencies, dependency.k, dependency.v)
                         ELSE dependencies)
                 ELSE IF InSeq(dependency.k, ignoreVersionCheck)
                 THEN Ok(dependencies)
                 ELSE Fail("PeerDependencyConflict")
         IN  merge(Get(dependencies, dependency.k))

RECURSIVE MergeAll(_, _, _)
\* addToDependenciesForModule for each entry of `from`, in order
MergeAll(from, into, ignoreVersionCheck) ==
    IF from = <<>> THEN Ok(into)
    ELSE LET next(r) ==
                 IF ~r.ok THEN r ELSE MergeAll(Tail(from), r.val, ignoreVersionCheck)
         IN  next(addToDependenciesForModule(Head(from), into, ignoreVersionCheck))

addToMainDependencies(from, into, ignoreVersionCheck) ==
    MergeAll(from, into, ignoreVersionCheck)

---------------------------------------------------------------------------
(* The inputs of one run of `plugin export` *)

DepNames == << BS, COMMON, LIB >>

\* the specifiers a dependency of the source descriptor may carry
DepSpecs(name) ==
    CASE name = BS -> { Caret(V1) }
      [] name = COMMON -> { Workspace(<<"^">>), Caret(V1) }
      [] name = LIB -> { Caret(V1), FileOutside, Workspace(<<"^">>) }

RECURSIVE BuildDeps(_, _, _)
\* the chosen dependencies as an object, keys in the order of DepNames
BuildDeps(i, chosen, specOf) ==
    IF i > Len(DepNames) THEN EmptyMap
    ELSE (IF i \in chosen THEN << Entry(DepNames[i], specOf[i]) >> ELSE <<>>)
         \o BuildDeps(i + 1, chosen, specOf)

SourceDeps ==
    UNION { { BuildDeps(1, chosen, specOf) :
                specOf \in { f \in [chosen -> UNION { DepSpecs(DepNames[i]) : i \in chosen }] :
                                \A i \in chosen : f[i] \in DepSpecs(DepNames[i]) } } :
            chosen \in { c \in SUBSET (1..Len(DepNames)) : Cardinality(c) <= MaxDeps } }

\* a source descriptor with or without the fields the customizer resets
SourcePkg(name, role, deps, extras) ==
    IF ~extras
    THEN Descriptor(name, V1, role, <<"dist/index", ".cjs.js">>, deps)
    ELSE [ Descriptor(name, V1, role, <<"dist/index", ".cjs.js">>, deps)
           EXCEPT !.devDependencies = << Entry(<<"jest">>, Caret(V1)) >>,
                  !.resolutions = Some(<< Entry(COMMON, V2) >>),
                  !.scripts = << Entry(<<"prepack">>, <<"backstage-cli prepack">>) >>,
                  !.files = Some(<< <<"dist">>, <<"dist-dynamic/", "*.json">> >>) ]

ListChoices(entries) == { <<>> } \cup { <<e>> : e \in entries }

BackendOpts ==
    [ clean : BOOLEAN, build : BOOLEAN, install : BOOLEAN,
      embedPackage : ListChoices({ LIB }),
      sharedPackage : ListChoices({ LIB, <<"!">> \o BS }),
      suppressNativePackage : ListChoices({ SQLITE, COMMON }),
      allowNativePackage : { <<>> },
      ignoreVersionCheck : { <<>> },
      scalprumConfig : { None },
      generateScalprumAssets : { TRUE },
      generateModuleFederationAssets : { TRUE } ]

FrontendOpts ==
    [ clean : BOOLEAN, build : { TRUE }, install : BOOLEAN,
      embedPackage : { <<>> },
      sharedPackage : { <<>> },
      suppressNativePackage : { <<>> },
      allowNativePackage : { <<>> },
      ignoreVersionCheck : { <<>> },
      scalprumConfig : { None },
      generateScalprumAssets : BOOLEAN,
      generateModuleFederationAssets : BOOLEAN ]

\* yarn.lock beside the plugin's package.json and at the monorepo root
PluginYarnLock == world.pluginLock

RootYarnLock == world.rootLock

\* the packages gatherNativeModules may find in the installed tree
NativeCandidates == { SQLITE }

\* a module of the exported plugin: the language of its source ("broken"
\* when it cannot be loaded at all) and what it exports
Modules == [ src : { "js", "ts", "broken" }, isPlugin : BOOLEAN, installer : BOOLEAN ]

\* what the entrypoint validation finds: the main module, the alpha
\* submodule if there is one, whether the `.ts` require extension is already
\* registered, and whether a typescript loader can be found
EntryInputs ==
    [ main : Modules, alpha : { None } \cup { Some(m) : m \in Modules },
      tsExtension : BOOLEAN, tsLoader : BOOLEAN ]

\* a plugin whose main module is a plugin, and one that exports nothing
GoodEntry ==
    [ main |-> [src |-> "js", isPlugin |-> TRUE, installer |-> FALSE],
      alpha |-> None, tsExtension |-> FALSE, tsLoader |-> TRUE ]

BadEntry ==
    [ main |-> [src |-> "js", isPlugin |-> FALSE, installer |-> FALSE],
      alpha |-> None, tsExtension |-> FALSE, tsLoader |-> TRUE ]

\* a Scalprum configuration kept in a file of the plugin directory, and one
\* written in the `scalprum` field of the descriptor
ScalprumFile == <<"scalprum.json">>

FileConfig ==
    << Entry(<<"name">>, <<"file", ".", "plugin">>),
       Entry(<<"exposedModules">>, << Entry(<<"Root">>, <<"./src/file.ts">>) >>),
       Entry(<<"version">>, <<"9.9.9">>) >>

InlineConfig ==
    << Entry(<<"name">>, <<"inline", ".", "plugin">>),
       Entry(<<"exposedModules">>, << Entry(<<"Root">>, <<"./src/inline.ts">>) >>) >>

\* a plugin of a monorepo whose only lock file is the one at the root, whose
\* sibling and registry packages are not bundled, and whose install brings
\* no native package
DefaultWorld ==
    [ bundled |-> {}, pluginLock |-> None, rootLock |-> Some({ BS, COMMON, LIB }),
      nativeTree |-> {}, entries |-> { GoodEntry, BadEntry },
      scalprumFile |-> None,
      mono |-> << PluginDir, CommonDir >>, pkgs |-> EmptyMap,
      req |-> << Entry(LIB, LibDir) >> ]

\* the same with bundled packages around, with lock files present or missing
\* in the plugin directory and at the root, and with native packages in the
\* tree the install produces
Worlds ==
    [ bundled : SUBSET { COMMON, LIB },
      pluginLock : { None, Some({ BS, LIB }) },
      rootLock : { None, Some({ BS, COMMON, LIB }) },
      nativeTree : SUBSET NativeCandidates,
      entries : { { GoodEntry, BadEntry } },
      scalprumFile : { None },
      mono : { << PluginDir, CommonDir >> }, pkgs : { EmptyMap },
      req : { << Entry(LIB, LibDir) >> } ]

\* a second directory of the monorepo whose package is named like the
\* sibling package
CopyDir == <<"/repo/packages/foo-common">>

\* the world w with that second package in its monorepo
WithCopy(w) ==
    [ w EXCEPT !.mono = Append(@, CopyDir),
               !.pkgs = Append(@, Entry(CopyDir,
                                        Descriptor(COMMON, V1, "common-library",
                                                   <<"src/index", ".ts">>, EmptyMap))) ]

\* what a previous export left in dist-dynamic/
StaleFiles == { <<"stale.js">> }

\* no call of searchEmbedded is followed
IdleWalk ==
    [ st |-> "idle", stack |-> <<>>, result |-> <<>>, err |-> "", entered |-> <<>> ]

StaleLock == Some({ LIB })

Init ==
    /\ kind \in { "backend", "frontend" }
    /\ opts \in (IF kind = "backend" THEN BackendOpts ELSE FrontendOpts)
    /\ yarnV1 \in (IF kind = "backend" THEN BOOLEAN ELSE { FALSE })
    /\ \E deps \in SourceDeps, extras \in BOOLEAN :
          srcPkg = IF kind = "backend"
                   THEN SourcePkg(BackendName, "backend-plugin", deps, extras)
                   ELSE SourcePkg(FrontendName, "frontend-plugin", deps, extras)
    /\ pc = "start"
    /\ err = ""
    /\ embedded = <<>>
    /\ rules = NoRules
    /\ idx = 0
    /\ embPeer = EmptyMap
    /\ tjson = <<>>
    /\ \E stale \in BOOLEAN :
          /\ opts.clean => stale
          /\ tfiles = IF stale THEN StaleFiles ELSE {}
          /\ tlock = IF stale THEN StaleLock ELSE None
    /\ lockExisted = FALSE
    /\ running = {}
    /\ ops = <<>>
    /\ writes = {}
    /\ natives = {}
    /\ produced = {}
    /\ firstMain = None
    /\ world = DefaultWorld
    /\ offending = {}
    /\ entry = None
    /\ walk = IdleWalk

\* the options of the runs that vary the files around the plugin
WorldBackendOpts ==
    [ clean : { FALSE }, build : { TRUE }, install : BOOLEAN,
      embedPackage : ListChoices({ LIB }),
      sharedPackage : { <<>> },
      suppressNativePackage : { <<>> },
      allowNativePackage : ListChoices({ SQLITE }),
      ignoreVersionCheck : { <<>> },
      scalprumConfig : { None },
      generateScalprumAssets : { TRUE },
      generateModuleFederationAssets : { TRUE } ]

WorldFrontendOpts ==
    [ clean : { FALSE }, build : { TRUE }, install : BOOLEAN,
      embedPackage : { <<>> },
      sharedPackage : { <<>> },
      suppressNativePackage : { <<>> },
      allowNativePackage : { <<>> },
      ignoreVersionCheck : { <<>> },
      scalprumConfig : { None },
      generateScalprumAssets : BOOLEAN,
      generateModuleFederationAssets : BOOLEAN ]

\* the exporter at its entry, on a target that a previous export may have
\* left
AtEntry ==
    /\ pc = "start"
    /\ err = ""
    /\ embedded = <<>>
    /\ rules = NoRules
    /\ idx = 0
    /\ embPeer = EmptyMap
    /\ tjson = <<>>
    /\ \E stale \in BOOLEAN :
          /\ tfiles = IF stale THEN StaleFiles ELSE {}
          /\ tlock = IF stale THEN StaleLock ELSE None
    /\ lockExisted = FALSE
    /\ running = {}
    /\ ops = <<>>
    /\ writes = {}
    /\ natives = {}
    /\ produced = {}
    /\ firstMain = None
    /\ offending = {}
    /\ entry = None

\* a run in any of the worlds, on a descriptor that may be bundled; a run
\* with --clean, or in a monorepo with two packages named like the common
\* library, or without the registry package installed
InitWorld ==
    /\ kind \in { "backend", "frontend" }
    /\ \E o \in (IF kind = "backend" THEN WorldBackendOpts ELSE WorldFrontendOpts),
          clean \in (IF kind = "backend" THEN BOOLEAN ELSE { FALSE }) :
          opts = [o EXCEPT !.clean = clean]
    /\ yarnV1 = FALSE
    /\ \E w \in Worlds, monorepo \in { "as it is", "two of one name", "not installed" } :
          /\ (opts.clean \/ monorepo # "as it is") => w = DefaultWorld
          /\ monorepo # "as it is" => kind = "backend"
          /\ world = CASE monorepo = "two of one name" -> WithCopy(w)
                        [] monorepo = "not installed" -> [w EXCEPT !.req = EmptyMap]
                        [] OTHER -> w
    /\ \E deps \in SourceDeps, bundled \in BOOLEAN :
          srcPkg = IF kind = "backend"
                   THEN [ SourcePkg(BackendName, "backend-plugin", deps, FALSE)
                          EXCEPT !.bundled = bundled ]
                   ELSE [ SourcePkg(FrontendName, "frontend-plugin", deps, FALSE)
                          EXCEPT !.bundled = bundled ]
    /\ AtEntry
    /\ walk = IdleWalk

\* a dependency on the common library by each form of the workspace
\* protocol: a range of its own, a version that is or is not the one of the
\* package, any version, the directory of the package
WorkspaceDeps ==
    { << Entry(COMMON, Workspace(detail)) >> :
        detail \in { <<"^">>, <<"~">>, <<"*">>, V1, V2, CommonDir } }

\* a dependency on the shared package by a version, by any version or by
\* another major version than the one the common library asks for, next to
\* the dependency on the common library
PeerDeps ==
    { << Entry(BS, range), Entry(COMMON, Workspace(<<"^">>)) >> :
        range \in { V1, <<"*">>, Caret(V2) } }

\* a frontend plugin without a scope in its name
PlainName == <<"baz">>

\* values of --shared-package: none, a regular expression, a literal that
\* is part of a name, a name with its own exclusion, an excluding regular
\* expression
SharedVariants ==
    { <<>>,
      << <<"/", "foo", "/">> >>,
      << <<"foo">> >>,
      << LIB, <<"!">> \o LIB >>,
      << <<"!", "/", "backstage", "/">> >> }

\* a backend run on a plugin whose modules are any of EntryInputs, or with
\* any of the values of --shared-package, or on a plugin without the suffix
\* of its role, or in a monorepo with two packages named like the common
\* library, or with a suppressed native package next to an embedded
\* registry package; a frontend run on a plugin whose
\* Scalprum configuration is given in a file, inline, in both or in
\* neither; the target holds a lock file
InitEntry ==
    /\ kind \in { "backend", "frontend" }
    /\ \E deps \in SourceDeps \cup WorkspaceDeps \cup PeerDeps :
          /\ yarnV1 \in (IF kind = "backend" /\ deps \in WorkspaceDeps
                         THEN BOOLEAN ELSE { FALSE })
          /\ IF kind = "backend"
             THEN \E o \in WorldBackendOpts, shared \in SharedVariants,
                     name \in { BackendName, PlainName }, twice \in BOOLEAN,
                     suppressNative \in ListChoices({ SQLITE, COMMON, LIB }) :
                        /\ o.allowNativePackage = <<>>
                        /\ o.embedPackage # <<>> <=> suppressNative # <<>>
                        /\ shared # <<>> => name = BackendName /\ ~twice
                        /\ suppressNative # <<>> =>
                              shared = <<>> /\ name = BackendName /\ ~twice
                        /\ srcPkg = SourcePkg(name, "backend-plugin", deps, FALSE)
                        /\ \E ignoreVersionCheck \in
                                 (IF deps \in PeerDeps THEN { <<>>, << BS >> }
                                  ELSE { <<>> }) :
                              opts = [o EXCEPT !.sharedPackage = shared,
                                               !.suppressNativePackage = suppressNative,
                                               !.ignoreVersionCheck = ignoreVersionCheck]
                        /\ world = IF twice THEN WithCopy(DefaultWorld)
                                   ELSE IF name = PlainName \/ deps \notin SourceDeps
                                           \/ shared # <<>> \/ suppressNative # <<>>
                                   THEN DefaultWorld
                                   ELSE [ DefaultWorld EXCEPT !.entries = EntryInputs ]
             ELSE /\ \E name \in { FrontendName, PlainName },
                        inline \in { None, Some(EmptyMap), Some(InlineConfig) } :
                        srcPkg = [ SourcePkg(name, "frontend-plugin", deps, FALSE)
                                   EXCEPT !.scalprum = inline ]
                  /\ \E o \in WorldFrontendOpts, file \in { None, Some(ScalprumFile) } :
                        opts = [o EXCEPT !.scalprumConfig = file]
                  /\ \E file \in { None, Some(FileConfig) } :
                        world = [ DefaultWorld EXCEPT !.scalprumFile = file ]
    /\ AtEntry
    /\ tlock # None
    /\ walk = IdleWalk

---------------------------------------------------------------------------
(* Control: awaited operations, stages, errors *)

Op(label, i) == [op |-> label, i |-> i]

\* the labels at which an awaited build, pack, customize or install (or an
\* asset producer) is in progress
IsOp(label) ==
    label \in { "emb_build", "emb_pack", "emb_cust", "main_build", "main_pack",
                "main_cust", "install", "mf_build", "scalprum_build" }

\* an operation that is started and not awaited
NoAwait(op) == running

\* `await op`: the code goes on only once op has settled
Await(op) == running \ { op }

\* the step `done` has completed; the code runs on to `label`
Continue(done, label, i) ==
    /\ pc' = label
    /\ idx' = i
    /\ running' = Await(done) \cup (IF IsOp(label) THEN { Op(label, i) } ELSE {})
    /\ ops' = Append(ops, done)
    /\ err' = err

\* an error is thrown out of the step `done`: the export is over
Throw(done, kindOfError) ==
    /\ pc' = "failed"
    /\ err' = kindOfError
    /\ running' = Await(done)
    /\ UNCHANGED << idx, ops >>

\* the export returns the target directory
Return(done) ==
    /\ pc' = "done"
    /\ running' = Await(done)
    /\ ops' = Append(ops, done)
    /\ UNCHANGED << idx, err >>

\* the order with the native-module scan ahead of the leakage check
NextStageScanFirst(label) ==
    CASE label = "main_cust" -> "lock"
      [] label = "install" -> "native"
      [] label = "native" -> "leak"
      [] label = "leak" -> "validate"

\* the stage the backend exporter runs after the stage `label`, from the
\* customization of the main package on
NextStage(label) ==
    CASE label = "main_cust" -> "lock"
      [] label = "install" -> "leak"
      [] label = "leak" -> "native"
      [] label = "native" -> "validate"

\* path.join(dir, path)
Join(dir, path) == IF path = <<>> THEN dir ELSE dir \o <<"/">> \o path

\* target = path.join(paths.targetDir, 'dist-dynamic')
Target == Join(PluginDir, <<"dist-dynamic">>)

InTarget(path) == Join(Target, path)

DerivedName == srcPkg.name \o <<"-dynamic">>

MainPkgPath == <<"package.json">>

EmbeddedPkgPath(e) == embeddedPackageRelativePath(e) \o <<"/", "package.json">>

SetJson(files, path, content) ==
    [q \in DOMAIN files \cup { path } |-> IF q = path THEN content ELSE files[q]]

---------------------------------------------------------------------------
(* backend.ts: backend() *)

stringOrRegexp(str) ==
    IF StartsWith(str, "/") /\ EndsWith(str, "/")
    THEN Regex(SliceInner(str)) ELSE Literal(str)

\* (opts.sharedPackage || []).filter(p => !p.startsWith('!'))
Included(sharedPackage) ==
    SelectSeq(sharedPackage, LAMBDA q : ~StartsWith(q, "!"))

\* (opts.sharedPackage || []).filter(p => p.startsWith('!'))
Excluded(sharedPackage) ==
    SelectSeq(sharedPackage, LAMBDA q : StartsWith(q, "!"))

\* rules that do not exclude the embedded packages
SharedRulesOfOptionsOnly(sharedPackage, embeddedPackages) ==
    [ include |->
          << Regex(<<"@", "backstage", "/">>) >> \o
          [i \in 1..Len(Included(sharedPackage)) |->
              stringOrRegexp(Included(sharedPackage)[i])],
      exclude |->
          [i \in 1..Len(Excluded(sharedPackage)) |->
              stringOrRegexp(Slice1(Excluded(sharedPackage)[i]))] ]

\* sharedPackagesRules
SharedRules(sharedPackage, embeddedPackages) ==
    [ include |->
          << Regex(<<"@", "backstage", "/">>) >> \o
          [i \in 1..Len(Included(sharedPackage)) |->
              stringOrRegexp(Included(sharedPackage)[i])],
      exclude |->
          [i \in 1..Len(Excluded(sharedPackage)) |->
              stringOrRegexp(Slice1(Excluded(sharedPackage)[i]))]
          \o [i \in 1..Len(embeddedPackages) |-> Literal(embeddedPackages[i])] ]

EmbeddedNames == [i \in 1..Len(embedded) |-> embedded[i].packageName]

\* a resolution that does not read the bundled field of the plugin's descriptor
B_ResolveAnyRoot ==
    /\ pc = "start" /\ kind = "backend"
    /\ LET resolved(r) ==
               IF ~r.ok
               THEN /\ Throw(Op("resolve", 0), r.err)
                    /\ UNCHANGED << embedded, rules >>
               ELSE /\ embedded' = r.val
                    /\ rules' = SharedRules(opts.sharedPackage,
                                    [i \in 1..Len(r.val) |-> r.val[i].packageName])
                    /\ Continue(Op("resolve", 0), "prepare", 0)
       IN  resolved(searchEmbedded(srcPkg, opts.embedPackage, <<>>))
    /\ UNCHANGED << walk, firstMain, world, offending, entry, kind, opts, yarnV1, srcPkg, embPeer, tjson, tfiles, tlock,
                    lockExisted, writes, natives, produced >>

\* an export that removes the target of --clean before anything else
B_ResolveAfterClean ==
    /\ pc = "start" /\ kind = "backend"
    /\ LET resolved(r) ==
               IF srcPkg.bundled
               THEN /\ Throw(Op("resolve", 0), "BundledPackageRejected")
                    /\ UNCHANGED << embedded, rules >>
               ELSE IF ~r.ok
               THEN /\ Throw(Op("resolve", 0), r.err)
                    /\ UNCHANGED << embedded, rules >>
               ELSE /\ embedded' = r.val
                    /\ rules' = SharedRules(opts.sharedPackage,
                                    [i \in 1..Len(r.val) |-> r.val[i].packageName])
                    /\ Continue(Op("resolve", 0), "prepare", 0)
       IN  resolved(searchEmbedded(srcPkg, opts.embedPackage, <<>>))
    /\ tfiles' = IF opts.clean THEN {} ELSE tfiles
    /\ tjson' = IF opts.clean THEN <<>> ELSE tjson
    /\ tlock' = IF opts.clean THEN None ELSE tlock
    /\ writes' = IF opts.clean THEN { InTarget(<<>>) } ELSE writes
    /\ UNCHANGED << walk, firstMain, world, offending, entry, kind, opts, yarnV1, srcPkg, embPeer,
                    lockExisted, natives, produced >>

\* lines 49-114: read the descriptor, resolve the embedded packages, build
\* the shared-package rules
B_Resolve ==
    /\ pc = "start" /\ kind = "backend"
    /\ LET resolved(r) ==
               IF srcPkg.bundled
               THEN /\ Throw(Op("resolve", 0), "BundledPackageRejected")
                    /\ UNCHANGED << embedded, rules >>
               ELSE IF ~r.ok
               THEN /\ Throw(Op("resolve", 0), r.err)
                    /\ UNCHANGED << embedded, rules >>
               ELSE /\ embedded' = r.val
                    /\ rules' = SharedRules(opts.sharedPackage,
                                    [i \in 1..Len(r.val) |-> r.val[i].packageName])
                    /\ Continue(Op("resolve", 0), "prepare", 0)
       IN  resolved(searchEmbedded(srcPkg, opts.embedPackage, <<>>))
    /\ UNCHANGED << walk, firstMain, world, offending, entry, kind, opts, yarnV1, srcPkg, embPeer, tjson, tfiles, tlock,
                    lockExisted, writes, natives, produced >>

\* a loop that leaves after its first package
EmbeddedEntryFirstOnly(i) ==
    IF i > Len(embedded) \/ i > 1
    THEN (IF opts.build THEN "main_build" ELSE "main_pack")
    ELSE IF ~embedded[i].alreadyPacked /\ opts.build
    THEN "emb_build" ELSE "emb_pack"

\* the label the loop over the embedded packages enters package i with, or
\* the label after the loop
EmbeddedEntry(i) ==
    IF i > Len(embedded)
    THEN (IF opts.build THEN "main_build" ELSE "main_pack")
    ELSE IF ~embedded[i].alreadyPacked /\ opts.build
    THEN "emb_build" ELSE "emb_pack"

EmbeddedIndex(i) == IF i > Len(embedded) THEN 0 ELSE i

StubDir(name) == <<"embedded", "/">> \o name

StubPkg(name) == [name |-> name, main |-> <<"index", ".js">>]

RECURSIVE WithStubs(_, _)
WithStubs(files, names) ==
    IF names = <<>> THEN files
    ELSE WithStubs(SetJson(files, StubDir(Head(names)) \o <<"/", "package.json">>,
                           StubPkg(Head(names))),
                   Tail(names))

StubFiles(names) ==
    { StubDir(names[i]) \o <<"/", "index", ".js">> : i \in 1..Len(names) }

\* lines 116-157: clean and create the target, .gitignore, native stubs
B_PrepareTarget ==
    /\ pc = "prepare" /\ kind = "backend"
    /\ LET files0 == IF opts.clean THEN {} ELSE tfiles
           json0 == IF opts.clean THEN <<>> ELSE tjson
           suppressNative == opts.suppressNativePackage
       IN  /\ tfiles' = files0 \cup { <<".gitignore">> } \cup StubFiles(suppressNative)
           /\ tjson' = WithStubs(json0, suppressNative)
           /\ tlock' = IF opts.clean THEN None ELSE tlock
           /\ writes' = writes
                \cup (IF opts.clean THEN { InTarget(<<>>) } ELSE {})
                \cup { InTarget(<<".gitignore">>) }
                \cup { InTarget(StubDir(suppressNative[i])) :
                          i \in 1..Len(suppressNative) }
    /\ Continue(Op("prepare", 0), EmbeddedEntry(1), EmbeddedIndex(1))
    /\ UNCHANGED << walk, firstMain, world, offending, entry, kind, opts, yarnV1, srcPkg, embedded, rules, embPeer,
                    lockExisted, natives, produced >>

\* lines 167-177: `yarn build` in the directory of embedded package idx
B_EmbeddedBuild ==
    /\ pc = "emb_build"
    /\ writes' = writes \cup { Join(embedded[idx].dir, <<"dist">>) }
    /\ \E ok \in BOOLEAN :
          IF ok THEN Continue(Op("emb_build", idx), "emb_pack", idx)
          ELSE Throw(Op("emb_build", idx), "SubprocessFailed")
    /\ UNCHANGED << walk, firstMain, world, offending, entry, kind, opts, yarnV1, srcPkg, embedded, rules, embPeer, tjson,
                    tfiles, tlock, lockExisted, natives, produced >>

\* lines 178-208: productionPack of embedded package idx into
\* embedded/<slug>, or the copy of an already packed one, which removes
\* what embedded/<slug> held (fs.rmSync, lines 197-198)
B_EmbeddedPack ==
    /\ pc = "emb_pack"
    /\ LET e == embedded[idx]
           rel == embeddedPackageRelativePath(e)
           under(f) == /\ Len(f) > Len(rel)
                       /\ SubSeq(f, 1, Len(rel) + 1) = rel \o <<"/">>
           kept(files) == IF e.alreadyPacked
                          THEN { f \in files : ~under(f) }
                          ELSE files
       IN  /\ tjson' = SetJson([f \in kept(DOMAIN tjson) |-> tjson[f]],
                               EmbeddedPkgPath(e), PackageJsonAt(e.dir))
           /\ tfiles' = kept(tfiles) \cup { rel \o <<"/", "dist">> }
           /\ writes' = writes \cup { InTarget(rel) }
    /\ Continue(Op("emb_pack", idx), "emb_cust", idx)
    /\ UNCHANGED << walk, firstMain, world, offending, entry, kind, opts, yarnV1, srcPkg, embedded, rules, embPeer, tlock,
                    lockExisted, natives, produced >>

EmbeddedOptions(e) ==
    [ embedded |-> embedded, isYarnV1 |-> yarnV1, monoRepoPackages |-> TRUE,
      sharedPackages |-> rules,
      overriding |-> [ private |-> Some(TRUE),
                       version |-> e.version \o <<"+embedded">> ],
      additionalOverrides |-> EmptyMap, additionalResolutions |-> EmptyMap ]

\* lines 224-237: the hook of an embedded package collects its peer
\* dependencies
AfterEmbedded(embeddedPkg, collected) ==
    IF embeddedPkg.peerDependencies = None THEN Ok(collected)
    ELSE MergeAll(embeddedPkg.peerDependencies[1], collected,
                  opts.ignoreVersionCheck)

\* lines 210-238: customization of embedded package idx
B_EmbeddedCustomize ==
    /\ pc = "emb_cust"
    /\ LET written(pkgPath, r, a) ==
               IF ~a.ok
               THEN /\ Throw(Op("emb_cust", idx), a.err)
                    /\ UNCHANGED << embPeer, tjson, writes >>
               ELSE /\ embPeer' = a.val
                    /\ tjson' = SetJson(tjson, pkgPath, r.val)
                    /\ writes' = writes \cup { InTarget(pkgPath) }
                    /\ Continue(Op("emb_cust", idx), EmbeddedEntry(idx + 1),
                                EmbeddedIndex(idx + 1))
           hooked(pkgPath, r) ==
               written(pkgPath, r,
                       IF r.ok THEN AfterEmbedded(r.val, embPeer) ELSE r)
           customize(e, pkgPath) ==
               hooked(pkgPath, CustomizeBody(tjson[pkgPath], EmbeddedOptions(e)))
       IN  customize(embedded[idx], EmbeddedPkgPath(embedded[idx]))
    /\ UNCHANGED << walk, firstMain, world, offending, entry, kind, opts, yarnV1, srcPkg, embedded, rules, tfiles, tlock,
                    lockExisted, natives, produced >>

RECURSIVE embeddedDependenciesResolutions(_)
\* lines 241-249: one file: resolution per embedded package
embeddedDependenciesResolutions(list) ==
    IF list = <<>> THEN EmptyMap
    ELSE Spread(<< Entry(Head(list).packageName, EmbeddedFileSpec(Head(list))) >>,
                embeddedDependenciesResolutions(Tail(list)))

RECURSIVE SuppressedResolutions(_)
\* lines 299-303: one file: resolution per suppressed native package
SuppressedResolutions(names) ==
    IF names = <<>> THEN EmptyMap
    ELSE Spread(<< Entry(Head(names), <<"file:", "./">> \o StubDir(Head(names))) >>,
                SuppressedResolutions(Tail(names)))

\* the options without bundleDependencies
MainOptionsNoBundle ==
    [ embedded |-> embedded, isYarnV1 |-> yarnV1, monoRepoPackages |-> TRUE,
      sharedPackages |-> rules,
      overriding |-> [ name |-> DerivedName,
                       scripts |-> EmptyMap ],
      additionalOverrides |-> EmptyMap,
      additionalResolutions |->
          Spread(embeddedDependenciesResolutions(embedded),
                 SuppressedResolutions(opts.suppressNativePackage)) ]

\* lines 282-304: the options of the customization of the main package
MainOptions ==
    [ embedded |-> embedded, isYarnV1 |-> yarnV1, monoRepoPackages |-> TRUE,
      sharedPackages |-> rules,
      overriding |-> [ name |-> DerivedName,
                       bundleDependencies |-> Some(TRUE),
                       scripts |-> EmptyMap ],
      additionalOverrides |-> EmptyMap,
      additionalResolutions |->
          Spread(embeddedDependenciesResolutions(embedded),
                 SuppressedResolutions(opts.suppressNativePackage)) ]

\* lines 305-321: the hook of the main package hoists the collected peer
\* dependencies
AfterMain(mainPkg) ==
    IF Len(embPeer) = 0 THEN Ok(mainPkg)
    ELSE LET hoisted(r) ==
                 IF ~r.ok THEN r
                 ELSE IF Len(r.val) > 0
                 THEN Ok([mainPkg EXCEPT !.peerDependencies = Some(r.val)])
                 ELSE Ok(mainPkg)
         IN  hoisted(addToMainDependencies(embPeer,
                                           OrEmpty(mainPkg.peerDependencies),
                                           opts.ignoreVersionCheck))

\* a build whose failure is reported and does not stop the export
B_MainBuildOptional ==
    /\ pc = "main_build"
    /\ writes' = writes \cup { Join(PluginDir, <<"dist">>) }
    /\ \E ok \in BOOLEAN :
          /\ pc' = "main_pack"
          /\ idx' = 0
          /\ running' = Await(Op("main_build", 0)) \cup { Op("main_pack", 0) }
          /\ ops' = Append(ops, Op("main_build", 0))
          /\ err' = IF ok THEN err ELSE "SubprocessFailed"
    /\ UNCHANGED << walk, firstMain, world, offending, entry, kind, opts, yarnV1, srcPkg, embedded, rules, embPeer, tjson,
                    tfiles, tlock, lockExisted, natives, produced >>

\* lines 251-257: `yarn build` in the plugin directory
B_MainBuild ==
    /\ pc = "main_build"
    /\ writes' = writes \cup { Join(PluginDir, <<"dist">>) }
    /\ \E ok \in BOOLEAN :
          IF ok THEN Continue(Op("main_build", 0), "main_pack", 0)
          ELSE Throw(Op("main_build", 0), "SubprocessFailed")
    /\ UNCHANGED << walk, firstMain, world, offending, entry, kind, opts, yarnV1, srcPkg, embedded, rules, embPeer, tjson,
                    tfiles, tlock, lockExisted, natives, produced >>

\* productionPack({ packageDir, targetDir: target }): the descriptor and the
\* publishable files of the plugin are copied into the target
PackMain ==
    /\ tjson' = SetJson(tjson, MainPkgPath, srcPkg)
    /\ tfiles' = tfiles \cup { <<"dist">> }
    /\ writes' = writes \cup { Target }

\* lines 259-275: pack of the main package
B_MainPack ==
    /\ pc = "main_pack" /\ kind = "backend"
    /\ PackMain
    /\ Continue(Op("main_pack", 0), "main_cust", 0)
    /\ UNCHANGED << walk, firstMain, world, offending, entry, kind, opts, yarnV1, srcPkg, embedded, rules, embPeer, tlock,
                    lockExisted, natives, produced >>

\* a customization that is skipped when the target already holds a lock file
B_MainCustomizeUnlessLocked ==
    /\ pc = "main_cust" /\ kind = "backend"
    /\ LET written(a) ==
               IF ~a.ok
               THEN /\ Throw(Op("main_cust", 0), a.err)
                    /\ UNCHANGED << tjson, writes >>
               ELSE /\ tjson' = SetJson(tjson, MainPkgPath, a.val)
                    /\ writes' = writes \cup { InTarget(MainPkgPath) }
                    /\ Continue(Op("main_cust", 0), NextStage("main_cust"), 0)
           hooked(r) == written(IF r.ok THEN AfterMain(r.val) ELSE r)
       IN  hooked(IF tlock # None
                  THEN Ok(tjson[MainPkgPath])
                  ELSE CustomizeBody(tjson[MainPkgPath], MainOptions))
    /\ UNCHANGED << walk, firstMain, world, offending, entry, kind, opts, yarnV1, srcPkg, embedded, rules, embPeer, tfiles,
                    tlock, lockExisted, natives, produced >>

\* lines 277-322: customization of the main package
B_MainCustomize ==
    /\ pc = "main_cust" /\ kind = "backend"
    /\ LET written(a) ==
               IF ~a.ok
               THEN /\ Throw(Op("main_cust", 0), a.err)
                    /\ UNCHANGED << tjson, writes >>
               ELSE /\ tjson' = SetJson(tjson, MainPkgPath, a.val)
                    /\ writes' = writes \cup { InTarget(MainPkgPath) }
                    /\ Continue(Op("main_cust", 0), NextStage("main_cust"), 0)
           hooked(r) == written(IF r.ok THEN AfterMain(r.val) ELSE r)
       IN  hooked(CustomizeBody(tjson[MainPkgPath], MainOptions))
    /\ UNCHANGED << walk, firstMain, world, offending, entry, kind, opts, yarnV1, srcPkg, embedded, rules, embPeer, tfiles,
                    tlock, lockExisted, natives, produced >>

\* a search that looks at the monorepo root first
locateYarnLockRootFirst ==
    IF RootYarnLock # None THEN RootYarnLock ELSE PluginYarnLock

\* locateAndCopyYarnLock: the lock file to copy, <<>> when there is none
locateYarnLock ==
    IF PluginYarnLock # None THEN PluginYarnLock ELSE RootYarnLock

\* yarnLockExists and, without a lock file in the target, the copy of the
\* static plugin's one; then the install is started or skipped
LockStep ==
    /\ lockExisted' = (tlock # None)
    /\ IF tlock # None
       THEN /\ UNCHANGED << tlock, writes >>
            /\ IF opts.install THEN Continue(Op("lock", 0), "install", 0)
               ELSE Return(Op("lock", 0))
       ELSE IF locateYarnLock = None
       THEN /\ UNCHANGED << tlock, writes >>
            /\ Throw(Op("lock", 0), "YarnLockNotFound")
       ELSE /\ tlock' = locateYarnLock
            /\ writes' = writes \cup { InTarget(<<"yarn.lock">>) }
            /\ IF opts.install THEN Continue(Op("lock", 0), "install", 0)
               ELSE Return(Op("lock", 0))

\* lines 324-335 and 453-466
B_Lock ==
    /\ pc = "lock" /\ kind = "backend"
    /\ LockStep
    /\ UNCHANGED << walk, firstMain, world, offending, entry, kind, opts, yarnV1, srcPkg, embedded, rules, embPeer, tjson,
                    tfiles, natives, produced >>

LockNames == { DerivedName, BS, COMMON, LIB }

\* the lock files an install may write
InstalledLocks == { names \in SUBSET LockNames : Cardinality(names) <= MaxLock }

\* an install run with cwd the plugin directory
InstallWritesInPluginDir ==
    writes' = writes \cup { Join(PluginDir, <<"yarn-install.log">>),
                            Join(PluginDir, <<"node_modules">>),
                            Join(PluginDir, <<".yarn">>) }

\* `yarn install ... > yarn-install.log` with cwd target, then the removal
\* of dist-dynamic/.yarn: what the step writes and removes
InstallWrites ==
    writes' = writes \cup { InTarget(<<"yarn-install.log">>),
                            InTarget(<<"node_modules">>),
                            InTarget(<<".yarn">>) }

\* lines 335-347: the install; an existing lock file is frozen, a copied
\* one is rewritten by the install
B_Install ==
    /\ pc = "install" /\ kind = "backend"
    /\ InstallWrites
    /\ \E ok \in BOOLEAN :
          IF ok
          THEN /\ tfiles' = (tfiles \cup { <<"node_modules">>, <<"yarn-install.log">> })
                            \ { <<".yarn">> }
               /\ \E written \in InstalledLocks :
                     tlock' = IF lockExisted THEN tlock ELSE Some(written)
               /\ natives' = world.nativeTree
               /\ Continue(Op("install", 0), NextStage("install"), 0)
          ELSE /\ tfiles' = tfiles \cup { <<"yarn-install.log">> }
               /\ UNCHANGED << tlock, natives >>
               /\ Throw(Op("install", 0), "SubprocessFailed")
    /\ UNCHANGED << walk, firstMain, world, offending, entry, kind, opts, yarnV1, srcPkg, embedded, rules, embPeer, tjson,
                    lockExisted, produced >>

\* the check restricted to the direct dependencies of the plugin
sharedPackagesInPrivateDepsDeclaredOnly(lockFile) ==
    { key \in lockFile :
        /\ key # DerivedName
        /\ ~InSeq(key, EmbeddedNames)
        /\ Has(srcPkg.dependencies, key)
        /\ isPackageShared(key, rules) }

\* lines 353-367: the lock entries that are shared packages, the derived
\* package and the embedded packages left out
sharedPackagesInPrivateDeps(lockFile) ==
    { key \in lockFile :
        /\ key # DerivedName
        /\ ~InSeq(key, EmbeddedNames)
        /\ isPackageShared(key, rules) }

\* lines 349-427: the shared-leakage check
B_LeakCheck ==
    /\ pc = "leak"
    /\ IF sharedPackagesInPrivateDeps(tlock[1]) # {}
       THEN Throw(Op("leak", 0), "SharedPackageLeakage")
       ELSE Continue(Op("leak", 0), NextStage("leak"), 0)
    /\ UNCHANGED << walk, firstMain, world, offending, entry, kind, opts, yarnV1, srcPkg, embedded, rules, embPeer, tjson,
                    tfiles, tlock, lockExisted, writes, natives, produced >>

\* a scan that keeps every native package it finds
nativePackagesAll(found, allowNative) == found

\* lines 430-435: the native packages found that allowNative does not include
nativePackages(found, allowNative) ==
    { nativePkg \in found : ~InSeq(nativePkg, allowNative) }

\* lines 429-443: the native-module scan of the installed tree
B_NativeScan ==
    /\ pc = "native"
    /\ IF nativePackages(natives, opts.allowNativePackage) # {}
       THEN /\ offending' = nativePackages(natives, opts.allowNativePackage)
            /\ Throw(Op("native", 0), "NativePackageForbidden")
       ELSE /\ UNCHANGED offending
            /\ Continue(Op("native", 0), NextStage("native"), 0)
    /\ UNCHANGED << walk, firstMain, world, entry, kind, opts, yarnV1, srcPkg, embedded, rules, embPeer, tjson,
                    tfiles, tlock, lockExisted, writes, natives, produced >>

\* lines 628-686: requireModule. A module whose source is typescript loads
\* once the `.ts` require extension is there; the extension is added, once,
\* after a first failure, when a loader is found in the plugin context
Loads(m, tsExtension) == m.src = "js" \/ (m.src = "ts" /\ tsExtension)

\* a load that looks for a typescript loader and loads the module again
\* after every failure
requireModuleAgain(m, retrying, tsExtension, tsLoader) ==
    IF Loads(m, tsExtension)
    THEN [ok |-> TRUE, retrying |-> retrying, tsExtension |-> tsExtension,
          loads |-> 1, retried |-> FALSE]
    ELSE [ok |-> Loads(m, tsExtension \/ tsLoader), retrying |-> TRUE,
          tsExtension |-> tsExtension \/ tsLoader,
          loads |-> 2, retried |-> TRUE]

\* lines 628-686: whether the module is loaded, the flag
\* retryingAfterTsExtensionAdded and the `.ts` require extension after the
\* call, the number of loads of the module, and whether the call has looked
\* for a typescript loader and loaded the module again
requireModule(m, retrying, tsExtension, tsLoader) ==
    IF Loads(m, tsExtension)
    THEN [ok |-> TRUE, retrying |-> retrying, tsExtension |-> tsExtension,
          loads |-> 1, retried |-> FALSE]
    ELSE IF retrying \/ tsExtension
    THEN [ok |-> FALSE, retrying |-> retrying, tsExtension |-> tsExtension,
          loads |-> 1, retried |-> FALSE]
    ELSE [ok |-> Loads(m, tsLoader), retrying |-> TRUE, tsExtension |-> tsLoader,
          loads |-> 2, retried |-> TRUE]

\* lines 689-693: the calls of requireModule of one validation, in order:
\* on the main module, then on the alpha submodule if the main module is
\* loaded and the submodule exists
requireCalls(e) ==
    LET then(first) ==
            IF ~first.ok \/ e.alpha = None THEN << first >>
            ELSE << first, requireModule(e.alpha[1], first.retrying,
                                         first.tsExtension, e.tsLoader) >>
    IN  then(requireModule(e.main, FALSE, e.tsExtension, e.tsLoader))

\* a default export that is a plugin, or an export named dynamicPluginInstaller
isValidPluginModule(m) == m.isPlugin \/ m.installer

\* a validation that looks at the main module only
validatePluginEntryPointsMainOnly(e) ==
    IF ~requireModule(e.main, FALSE, e.tsExtension, e.tsLoader).ok
    THEN "Unable to validate plugin entry points"
    ELSE IF ~isValidPluginModule(e.main)
    THEN "Backend plugin is not valid for dynamic loading"
    ELSE ""

\* lines 688-713: '' when a loaded module is a valid plugin module, else the
\* error message
validatePluginEntryPoints(e) ==
    LET verdict(modules) ==
            IF ~\E m \in modules : isValidPluginModule(m)
            THEN "Backend plugin is not valid for dynamic loading"
            ELSE ""
        loaded(calls) ==
            IF \E i \in 1..Len(calls) : ~calls[i].ok
            THEN "Unable to validate plugin entry points"
            ELSE IF Len(calls) = 1 THEN verdict({ e.main })
            ELSE verdict({ e.alpha[1], e.main })
    IN  loaded(requireCalls(e))

\* lines 445-452: entrypoint validation, then the removal of the install log
B_Validate ==
    /\ pc = "validate"
    /\ \E e \in world.entries :
          /\ entry' = Some(e)
          /\ IF validatePluginEntryPoints(e) # ""
             THEN /\ Throw(Op("validate", 0), "InvalidPluginEntrypoint")
                  /\ UNCHANGED << tfiles, writes >>
             ELSE /\ tfiles' = tfiles \ { <<"yarn-install.log">> }
                  /\ writes' = writes \cup { InTarget(<<"yarn-install.log">>) }
                  /\ Return(Op("validate", 0))
    /\ UNCHANGED << walk, firstMain, world, offending, kind, opts, yarnV1, srcPkg, embedded, rules, embPeer, tjson,
                    tlock, lockExisted, natives, produced >>

---------------------------------------------------------------------------
(* frontend.ts: frontend() *)

\* lines 112-130, up to the call of buildFrontend: --clean removes dist/
\* of the plugin directory
ModuleFederationClean ==
    IF opts.clean THEN { Join(PluginDir, <<"dist">>) } ELSE {}

\* a start that cleans dist/ before it looks at the asset options
F_StartCleansFirst ==
    /\ pc = "start" /\ kind = "frontend"
    /\ writes' = writes \cup ModuleFederationClean
    /\ IF ~opts.generateScalprumAssets /\ ~opts.generateModuleFederationAssets
       THEN Throw(Op("read", 0), "NoFrontendAssetsRequested")
       ELSE IF opts.generateModuleFederationAssets
       THEN Continue(Op("read", 0), "mf_build", 0)
       ELSE Continue(Op("read", 0), "prepare", 0)
    /\ UNCHANGED << walk, firstMain, world, offending, entry, kind, opts, yarnV1, srcPkg, embedded, rules, embPeer, tjson,
                    tfiles, tlock, lockExisted, natives, produced >>

\* lines 36-51: read the descriptor, require an asset option, start the
\* module federation build if it is requested
F_Start ==
    /\ pc = "start" /\ kind = "frontend"
    /\ IF ~opts.generateScalprumAssets /\ ~opts.generateModuleFederationAssets
       THEN /\ Throw(Op("read", 0), "NoFrontendAssetsRequested")
            /\ UNCHANGED writes
       ELSE IF opts.generateModuleFederationAssets
       THEN /\ writes' = writes \cup ModuleFederationClean
            /\ Continue(Op("read", 0), "mf_build", 0)
       ELSE /\ UNCHANGED writes
            /\ Continue(Op("read", 0), "prepare", 0)
    /\ UNCHANGED << walk, firstMain, world, offending, entry, kind, opts, yarnV1, srcPkg, embedded, rules, embPeer, tjson,
                    tfiles, tlock, lockExisted, natives, produced >>

\* lines 124-129: buildFrontend writes the module federation assets to
\* dist/ of the plugin directory
F_ModuleFederation ==
    /\ pc = "mf_build"
    /\ writes' = writes \cup { Join(PluginDir, <<"dist">>) }
    /\ produced' = produced \cup
          { [ producer |-> "module-federation",
              out |-> Join(PluginDir, <<"dist">>), meta |-> <<>> ] }
    /\ \E ok \in BOOLEAN :
          IF ok THEN Continue(Op("mf_build", 0), "prepare", 0)
          ELSE Throw(Op("mf_build", 0), "SubprocessFailed")
    /\ UNCHANGED << walk, firstMain, world, offending, entry, kind, opts, yarnV1, srcPkg, embedded, rules, embPeer, tjson,
                    tfiles, tlock, lockExisted, natives >>

\* lines 53-68: clean and create the target, .gitignore; the pack starts
F_PrepareTarget ==
    /\ pc = "prepare" /\ kind = "frontend"
    /\ tfiles' = (IF opts.clean THEN {} ELSE tfiles) \cup { <<".gitignore">> }
    /\ tjson' = IF opts.clean THEN <<>> ELSE tjson
    /\ tlock' = IF opts.clean THEN None ELSE tlock
    /\ writes' = writes \cup (IF opts.clean THEN { Target } ELSE {})
                        \cup { InTarget(<<".gitignore">>) }
    /\ Continue(Op("prepare", 0), "main_pack", 0)
    /\ UNCHANGED << walk, firstMain, world, offending, entry, kind, opts, yarnV1, srcPkg, embedded, rules, embPeer,
                    lockExisted, natives, produced >>

\* lines 70-73: pack of the main package
F_MainPack ==
    /\ pc = "main_pack" /\ kind = "frontend"
    /\ PackMain
    /\ Continue(Op("main_pack", 0), "main_cust", 0)
    /\ UNCHANGED << walk, firstMain, world, offending, entry, kind, opts, yarnV1, srcPkg, embedded, rules, embPeer, tlock,
                    lockExisted, natives, produced >>

\* lines 82-89: dist-scalprum joins a files list that lacks it
FrontendFiles ==
    IF /\ srcPkg.files # None
       /\ ~InSeq(<<"dist-scalprum">>, srcPkg.files[1])
       /\ opts.generateScalprumAssets
    THEN Some(Append(srcPkg.files[1], <<"dist-scalprum">>))
    ELSE srcPkg.files

FrontendOptions ==
    [ embedded |-> <<>>, isYarnV1 |-> FALSE, monoRepoPackages |-> TRUE,
      sharedPackages |-> NoRules,
      overriding |-> [ name |-> srcPkg.name \o <<"-dynamic">>,
                       scripts |-> EmptyMap,
                       files |-> FrontendFiles ],
      additionalOverrides |-> EmptyMap, additionalResolutions |-> EmptyMap ]

\* name.split('/')[i], for i = 0 and i = 1, of a name that has a '/'
Fragment0(name) == SubSeq(name, 1, FirstIndex(name, "/") - 1)

Fragment1(name) ==
    LET rest == SubSeq(name, FirstIndex(name, "/") + 1, Len(name))
    IN  IF FirstIndex(rest, "/") = 0 THEN rest
        ELSE SubSeq(rest, 1, FirstIndex(rest, "/") - 1)

\* s.replace('@', ''): the first '@' is dropped
DropFirstAt(str) ==
    LET i == FirstIndex(str, "@")
    IN  IF i = 0 THEN str
        ELSE SubSeq(str, 1, i - 1) \o SubSeq(str, i + 1, Len(str))

\* lines 152-162: the default configuration
defaultScalprum(name) ==
    << Entry(<<"name">>, IF FirstIndex(name, "/") # 0
                         THEN DropFirstAt(Fragment0(name)) \o <<".">> \o Fragment1(name)
                         ELSE name),
       Entry(<<"exposedModules">>,
             << Entry(<<"PluginRoot">>, <<"./src/index.ts">>) >>) >>

\* a resolution that prefers the inline configuration to the file
resolveScalprumConfigInlineFirst ==
    IF srcPkg.scalprum # None THEN Ok(srcPkg.scalprum[1])
    ELSE IF opts.scalprumConfig # None
    THEN (IF world.scalprumFile = None THEN Fail("ScalprumConfigUnreadable")
          ELSE Ok(world.scalprumFile[1]))
    ELSE Ok(defaultScalprum(srcPkg.name))

\* lines 132-172: resolveScalprumConfig; fs.readJson throws on a file
\* that is missing
resolveScalprumConfig ==
    IF opts.scalprumConfig # None
    THEN (IF world.scalprumFile = None THEN Fail("ScalprumConfigUnreadable")
          ELSE Ok(world.scalprumFile[1]))
    ELSE IF srcPkg.scalprum # None THEN Ok(srcPkg.scalprum[1])
    ELSE Ok(defaultScalprum(srcPkg.name))

\* lines 198-201: { ...scalprum, version }
pluginMetadata(scalprum, version) ==
    Spread(scalprum, << Entry(<<"version">>, version) >>)

\* a customization after which the Scalprum build is not started
F_MainCustomizeOnly ==
    /\ pc = "main_cust" /\ kind = "frontend"
    /\ LET written(r) ==
               IF ~r.ok
               THEN /\ Throw(Op("main_cust", 0), r.err)
                    /\ UNCHANGED << tjson, tfiles, writes >>
               ELSE /\ tjson' = SetJson(tjson, MainPkgPath, r.val)
                    /\ tfiles' = tfiles
                    /\ writes' = writes \cup { InTarget(MainPkgPath) }
                    /\ Continue(Op("main_cust", 0), "lock", 0)
       IN  written(CustomizeBody(tjson[MainPkgPath], FrontendOptions))
    /\ UNCHANGED << walk, firstMain, world, offending, entry, kind, opts, yarnV1, srcPkg, embedded, rules, embPeer, tlock,
                    lockExisted, natives, produced >>

\* lines 75-104 and 174-192: customization of the main package; then the
\* Scalprum build is started if it is requested
F_MainCustomize ==
    /\ pc = "main_cust" /\ kind = "frontend"
    /\ LET written(r) ==
               IF ~r.ok
               THEN /\ Throw(Op("main_cust", 0), r.err)
                    /\ UNCHANGED << tjson, tfiles, writes >>
               ELSE /\ tjson' = SetJson(tjson, MainPkgPath, r.val)
                    /\ IF opts.generateScalprumAssets /\ ~resolveScalprumConfig.ok
                       THEN /\ tfiles' = tfiles
                            /\ writes' = writes \cup { InTarget(MainPkgPath) }
                            /\ Throw(Op("main_cust", 0), resolveScalprumConfig.err)
                       ELSE IF opts.generateScalprumAssets
                       THEN /\ tfiles' = tfiles \ { <<"dist-scalprum">> }
                            /\ writes' = writes \cup { InTarget(MainPkgPath),
                                                       InTarget(<<"dist-scalprum">>) }
                            /\ Continue(Op("main_cust", 0), "scalprum_build", 0)
                       ELSE /\ tfiles' = tfiles
                            /\ writes' = writes \cup { InTarget(MainPkgPath) }
                            /\ Continue(Op("main_cust", 0), "lock", 0)
       IN  written(CustomizeBody(tjson[MainPkgPath], FrontendOptions))
    /\ UNCHANGED << walk, firstMain, world, offending, entry, kind, opts, yarnV1, srcPkg, embedded, rules, embPeer, tlock,
                    lockExisted, natives, produced >>

\* lines 194-203: buildScalprumPlugin writes dist-dynamic/dist-scalprum
F_Scalprum ==
    /\ pc = "scalprum_build"
    /\ writes' = writes \cup { InTarget(<<"dist-scalprum">>) }
    /\ produced' = produced \cup
          { [ producer |-> "scalprum", out |-> InTarget(<<"dist-scalprum">>),
              meta |-> << pluginMetadata(resolveScalprumConfig.val,
                                         srcPkg.version) >> ] }
    /\ \E ok \in BOOLEAN :
          IF ok THEN /\ tfiles' = tfiles \cup { <<"dist-scalprum">> }
                     /\ Continue(Op("scalprum_build", 0), "lock", 0)
          ELSE /\ tfiles' = tfiles
               /\ Throw(Op("scalprum_build", 0), "SubprocessFailed")
    /\ UNCHANGED << walk, firstMain, world, offending, entry, kind, opts, yarnV1, srcPkg, embedded, rules, embPeer, tjson,
                    tlock, lockExisted, natives >>

\* lines 206-233: handlePackageInstall up to the install command
F_Lock ==
    /\ pc = "lock" /\ kind = "frontend"
    /\ LockStep
    /\ UNCHANGED << walk, firstMain, world, offending, entry, kind, opts, yarnV1, srcPkg, embedded, rules, embPeer, tjson,
                    tfiles, natives, produced >>

\* lines 235-249: the install, then the removal of .yarn and of the log
F_Install ==
    /\ pc = "install" /\ kind = "frontend"
    /\ InstallWrites
    /\ \E ok \in BOOLEAN :
          IF ok
          THEN /\ tfiles' = (tfiles \cup { <<"node_modules">> })
                            \ { <<".yarn">>, <<"yarn-install.log">> }
               /\ \E written \in InstalledLocks :
                     tlock' = IF lockExisted THEN tlock ELSE Some(written)
               /\ Return(Op("install", 0))
          ELSE /\ tfiles' = tfiles \cup { <<"yarn-install.log">> }
               /\ UNCHANGED tlock
               /\ Throw(Op("install", 0), "SubprocessFailed")
    /\ UNCHANGED << walk, firstMain, world, offending, entry, kind, opts, yarnV1, srcPkg, embedded, rules, embPeer, tjson,
                    lockExisted, natives, produced >>

---------------------------------------------------------------------------
(* The specification *)

Next ==
    \/ B_Resolve
    \/ B_PrepareTarget
    \/ B_EmbeddedBuild
    \/ B_EmbeddedPack
    \/ B_EmbeddedCustomize
    \/ B_MainBuild
    \/ B_MainPack
    \/ B_MainCustomize
    \/ B_Lock
    \/ B_Install
    \/ B_LeakCheck
    \/ B_NativeScan
    \/ B_Validate
    \/ F_Start
    \/ F_ModuleFederation
    \/ F_PrepareTarget
    \/ F_MainPack
    \/ F_MainCustomize
    \/ F_Scalprum
    \/ F_Lock
    \/ F_Install

Spec == Init /\ [][Next]_vars

\* the command is run again on the plugin after a successful export: same
\* descriptor, monorepo, options and yarn version, and dist-dynamic/ as the
\* first run left it
Rerun ==
    /\ pc = "done" /\ firstMain = None
    /\ firstMain' = Some(tjson[MainPkgPath])
    /\ pc' = "start"
    /\ err' = ""
    /\ embedded' = <<>>
    /\ rules' = NoRules
    /\ idx' = 0
    /\ embPeer' = EmptyMap
    /\ lockExisted' = FALSE
    /\ running' = {}
    /\ ops' = <<>>
    /\ writes' = {}
    /\ natives' = {}
    /\ produced' = {}
    /\ offending' = {}
    /\ entry' = None
    /\ UNCHANGED << walk, world, kind, opts, yarnV1, srcPkg, tjson, tfiles, tlock >>

NextTwice == Next \/ Rerun

\* the first run is any run that does not suppress a native package
InitTwice == Init /\ opts.suppressNativePackage = <<>>

\* two export runs in a row
SpecTwice == InitTwice /\ [][NextTwice]_vars

\* one export run in each of the worlds
SpecWorld == InitWorld /\ [][Next]_vars

\* one export run on each of the plugins and option values of InitEntry
SpecEntry == InitEntry /\ [][Next]_vars

---------------------------------------------------------------------------
(* backend.ts: searchEmbedded followed call by call *)

MaxDepth == 6

NODE == <<"@", "x", "/", "foo", "-node">>

ModuleName == <<"@", "x", "/", "foo", "-backend-module-", "bar">>

NodeDir == <<"/repo/plugins/foo-node">>

ModDir == <<"/repo/plugins/foo-backend-module-bar">>

\* dependencies on the named packages: on the registry package by a range,
\* on the packages of the monorepo by the workspace protocol
WalkDeps(names) ==
    [ i \in 1..Len(names) |->
        Entry(names[i], IF names[i] = LIB THEN Caret(V1) ELSE Workspace(<<"^">>)) ]

\* the lists of at most n different names of a set
DepLists(names, n) ==
    { l \in UNION { [1..k -> names] : k \in 0..n } :
        \A i, j \in 1..Len(l) : i # j => l[i] # l[j] }

\* a monorepo of the plugin, a common library, a node library and a backend
\* module that depend on each other as chosen, with or without a second
\* package named like the common library
WalkWorld(commonDeps, nodeDeps, moduleDeps) ==
    [ DefaultWorld EXCEPT
        !.pkgs = << Entry(CommonDir,
                          Descriptor(COMMON, V1, "common-library",
                                     <<"src/index", ".ts">>, WalkDeps(commonDeps))),
                    Entry(NodeDir,
                          Descriptor(NODE, V1, "node-library",
                                     <<"src/index", ".ts">>, WalkDeps(nodeDeps))),
                    Entry(ModDir,
                          Descriptor(ModuleName, V1, "backend-plugin-module",
                                     <<"src/index", ".ts">>, WalkDeps(moduleDeps))) >>,
        !.mono = << PluginDir, CommonDir, NodeDir, ModDir >> ]

\* the state of one call searchEmbedded(pkg, packagesToEmbed, ...,
\* alreadyResolved): its seed list, the index of the key of pkg.dependencies
\* its loop is at, and the list it has built
Call(pkg, packagesToEmbed, alreadyResolved) ==
    [ pkg |-> pkg, packagesToEmbed |-> packagesToEmbed,
      embedded |-> SeedList(pkg, packagesToEmbed, alreadyResolved),
      alreadyResolved |-> alreadyResolved, i |-> 1, resolved |-> <<>> ]

\* a test that looks at the list of the call only
SeenOwnOnly(call) == call.resolved

\* [...alreadyResolved, ...resolved]: the entries the test for a directory
\* already resolved looks at
Seen(call) == call.alreadyResolved \o call.resolved

\* the entries of the call below put in front of the list
ReturnedFirst(call, sub) ==
    [call EXCEPT !.resolved = sub \o @, !.i = @ + 1]

\* resolved.push(...(await searchEmbedded(...))): the call goes on with its
\* next key once the call below has returned its list
Returned(call, sub) ==
    [call EXCEPT !.resolved = @ \o sub, !.i = @ + 1]

\* the export of a backend plugin calls searchEmbedded on its descriptor
\* with the packages of --embed-package and nothing resolved
InitWalk ==
    /\ kind = "backend"
    /\ yarnV1 = FALSE
    /\ \E root \in { <<BackendName, "backend-plugin">>, <<BackendName, "">>,
                      <<PlainName, "backend-plugin">> },
          rootDeps \in DepLists({ COMMON, NODE, ModuleName, LIB }, MaxDeps),
          commonDeps \in { <<>>, <<LIB>>, <<NODE>>, <<BackendName>>, <<NODE, LIB>> },
          nodeDeps \in { <<>>, <<COMMON>>, <<LIB, COMMON>> },
          moduleDeps \in { <<>>, <<COMMON>> },
          twice \in BOOLEAN :
          /\ srcPkg = Descriptor(root[1], V1, root[2], <<"dist/index", ".cjs.js">>,
                                 WalkDeps(rootDeps))
          /\ world = IF twice
                     THEN WithCopy(WalkWorld(commonDeps, nodeDeps, moduleDeps))
                     ELSE WalkWorld(commonDeps, nodeDeps, moduleDeps)
    /\ \E o \in WorldBackendOpts :
          /\ o.install /\ o.allowNativePackage = <<>> /\ o.embedPackage = <<>>
          /\ \E packagesToEmbed \in { <<>>, <<LIB>>, <<LIB, BackendName>>,
                                      <<NODE, ModuleName>> } :
                opts = [o EXCEPT !.embedPackage = packagesToEmbed]
    /\ AtEntry
    /\ tlock = None
    /\ walk = [ IdleWalk EXCEPT !.st = "run",
                                !.stack = << Call(srcPkg, opts.embedPackage, <<>>) >> ]

\* one turn of the loop over pkg.dependencies in the innermost call: the
\* key is skipped, or the resolution fails, or the package is entered in
\* the list and searchEmbedded is called on it
W_Visit ==
    /\ walk.st = "run"
    /\ LET top == Len(walk.stack)
           skip == walk' = [walk EXCEPT !.stack[top].i = @ + 1]
           fail(e) == walk' = [walk EXCEPT !.st = "failed", !.err = e]
           enter(call, item, found) ==
               /\ top < MaxDepth
               /\ walk' = [ walk EXCEPT
                              !.stack = Append([@ EXCEPT ![top].resolved = Append(@, item)],
                                               Call(found.pkg, call.embedded,
                                                    call.alreadyResolved
                                                      \o Append(call.resolved, item))),
                              !.entered = Append(@, found.dir) ]
           fresh(call, found) ==
               IF \E j \in 1..Len(Seen(call)) : Seen(call)[j].dir = found.dir
               THEN skip
               ELSE enter(call,
                          [ dir |-> found.dir,
                            packageName |-> found.pkg.name,
                            version |-> found.pkg.version,
                            parentPackageName |-> call.pkg.name,
                            alreadyPacked |-> found.alreadyPacked ],
                          found)
           located(call, r) ==
               IF ~r.ok THEN fail(r.err)
               ELSE IF r.val.pkg.bundled THEN fail("EmbeddedPackageBundled")
               ELSE fresh(call, r.val)
           visit(call, dep) ==
               IF ~InSeq(dep, call.embedded) THEN skip
               ELSE located(call, ResolveOne(call.pkg, dep))
           turn(call) ==
               /\ call.i <= Len(call.pkg.dependencies)
               /\ visit(call, call.pkg.dependencies[call.i].k)
       IN  turn(walk.stack[top])
    /\ UNCHANGED << firstMain, world, offending, entry, kind, opts, yarnV1, srcPkg,
                    pc, err, embedded, rules, idx, embPeer, tjson, tfiles, tlock,
                    lockExisted, running, ops, writes, natives, produced >>

\* the loop of the innermost call is over: the call returns its list, to
\* the call that made it or, for the first call, to the exporter
W_Return ==
    /\ walk.st = "run"
    /\ LET top == Len(walk.stack)
           back(call) ==
               /\ call.i > Len(call.pkg.dependencies)
               /\ walk' = IF top = 1
                          THEN [ walk EXCEPT !.st = "done", !.stack = <<>>,
                                             !.result = call.resolved ]
                          ELSE [ walk EXCEPT
                                   !.stack = Append(SubSeq(@, 1, top - 2),
                                                    Returned(@[top - 1], call.resolved)) ]
       IN  back(walk.stack[top])
    /\ UNCHANGED << firstMain, world, offending, entry, kind, opts, yarnV1, srcPkg,
                    pc, err, embedded, rules, idx, embPeer, tjson, tfiles, tlock,
                    lockExisted, running, ops, writes, natives, produced >>

NextWalk == W_Visit \/ W_Return

\* the resolution of the embedded packages over the monorepos of WalkWorld
SpecWalk == InitWalk /\ [][NextWalk]_vars

\* the walks of a backend plugin told to embed itself and the registry
\* package, in a monorepo without two packages of one name whose common
\* library and node library may depend on each other and on the plugin
InitWalkCycles ==
    /\ InitWalk
    /\ srcPkg.role = "backend-plugin" /\ srcPkg.name = BackendName
    /\ opts.embedPackage = << LIB, BackendName >>
    /\ Len(world.mono) = 4
    /\ Get(world.pkgs, ModDir).dependencies = EmptyMap

\* these walks, where a call that can go on does go on
SpecWalkFair == InitWalkCycles /\ [][NextWalk]_vars /\ WF_vars(NextWalk)

---------------------------------------------------------------------------
(* Properties of the export: dependencies of the emitted descriptor *)

C2_NoWorkspaceNoOutsideFile ==
    pc = "done" =>
        \A i \in 1..Len(tjson[MainPkgPath].dependencies) :
            LET v == tjson[MainPkgPath].dependencies[i].v
            IN  /\ ~StartsWith(v, "workspace:")
                /\ StartsWith(v, "file:") =>
                      (Len(v) >= 3 /\ v[2] = "./" /\ v[3] = "embedded")

\* C2 amended: after a successful export no dependency of the emitted main
\* descriptor has a workspace: specifier, and each file: specifier either
\* points into embedded/ or is the specifier the input descriptor already
\* had for that dependency.
C2_NoWorkspaceFileFromInputOrEmbedded ==
    pc = "done" =>
        \A i \in 1..Len(tjson[MainPkgPath].dependencies) :
            LET d == tjson[MainPkgPath].dependencies[i]
            IN  /\ ~StartsWith(d.v, "workspace:")
                /\ StartsWith(d.v, "file:") =>
                      \/ (Len(d.v) >= 3 /\ d.v[2] = "./" /\ d.v[3] = "embedded")
                      \/ /\ Has(srcPkg.dependencies, d.k)
                         /\ Get(srcPkg.dependencies, d.k) = d.v

\* a successful export whose input had a workspace: dependency, emitted as
\* a file: specifier into embedded/ (yarn v1)
C2_Witness ==
    /\ pc = "done" /\ yarnV1
    /\ Has(srcPkg.dependencies, COMMON)
    /\ StartsWith(Get(srcPkg.dependencies, COMMON), "workspace:")
    /\ Has(tjson[MainPkgPath].dependencies, COMMON)
    /\ Get(tjson[MainPkgPath].dependencies, COMMON) =
          <<"file:", "./", "embedded", "/", "x", "-", "foo", "-common">>

\* C3 as stated: whatever the options, a backend export does not return
\* successfully with a target lock file that has a shared entry other than
\* the derived package and the embedded packages.
C3_LeakNeverReturns ==
    (kind = "backend" /\ pc = "done" /\ tlock # None) =>
        \A key \in tlock[1] :
            (key # srcPkg.name \o <<"-dynamic">> /\ ~InSeq(key, EmbeddedNames))
                => ~isPackageShared(key, rules)

\* C3 amended: when the install is enabled (--install, the default), a
\* backend export does not return successfully with a target lock file that
\* has a shared entry other than the derived package and the embedded
\* packages.
C3_LeakNeverReturnsWhenInstalled ==
    (kind = "backend" /\ pc = "done" /\ opts.install /\ tlock # None) =>
        \A key \in tlock[1] :
            (key # srcPkg.name \o <<"-dynamic">> /\ ~InSeq(key, EmbeddedNames))
                => ~isPackageShared(key, rules)

\* the check has stopped an export whose lock file has a shared entry
C3_Witness ==
    /\ kind = "backend" /\ opts.install
    /\ pc = "failed" /\ err = "SharedPackageLeakage"
    /\ tlock # None /\ BS \in tlock[1]

\* C4 as stated: after a successful backend export, for every embedded
\* package E the emitted main descriptor has resolutions[E.name] =
\* file:./embedded/<slug(E)> and embedded/<slug(E)>/package.json exists.
C4_EmbeddedResolutions ==
    (kind = "backend" /\ pc = "done") =>
        \A i \in 1..Len(embedded) :
            LET name == embedded[i].packageName
                slugDir == <<"embedded", "/">> \o Slug(name)
            IN  /\ Has(OrEmpty(tjson[MainPkgPath].resolutions), name)
                /\ Get(OrEmpty(tjson[MainPkgPath].resolutions), name) =
                      <<"file:", "./">> \o slugDir
                /\ (slugDir \o <<"/", "package.json">>) \in DOMAIN tjson

\* C4 amended: after a successful backend export, for every embedded package
\* E, embedded/<slug(E)>/package.json exists and, unless E.name is also
\* given to --suppress-native-package, the emitted main descriptor has
\* resolutions[E.name] = file:./embedded/<slug(E)>.
C4_EmbeddedResolutionsUnlessSuppressed ==
    (kind = "backend" /\ pc = "done") =>
        \A i \in 1..Len(embedded) :
            LET name == embedded[i].packageName
                slugDir == <<"embedded", "/">> \o Slug(name)
            IN  /\ (slugDir \o <<"/", "package.json">>) \in DOMAIN tjson
                /\ ~InSeq(name, opts.suppressNativePackage) =>
                      /\ Has(OrEmpty(tjson[MainPkgPath].resolutions), name)
                      /\ Get(OrEmpty(tjson[MainPkgPath].resolutions), name) =
                            <<"file:", "./">> \o slugDir

\* a successful backend export of a descriptor that had another resolution
\* for the scoped package it embeds
C4_Witness ==
    /\ kind = "backend" /\ pc = "done"
    /\ \E i \in 1..Len(embedded) : embedded[i].packageName = COMMON
    /\ srcPkg.resolutions = Some(<< Entry(COMMON, V2) >>)
    /\ Get(OrEmpty(tjson[MainPkgPath].resolutions), COMMON) =
          <<"file:", "./", "embedded", "/", "x", "-", "foo", "-common">>

\* C5 as stated: the main descriptor emitted by a successful export, backend
\* or frontend, has name = <original>-dynamic, scripts = {} and
\* bundleDependencies = true.
C5_MainDescriptorFields ==
    pc = "done" =>
        /\ tjson[MainPkgPath].name = srcPkg.name \o <<"-dynamic">>
        /\ tjson[MainPkgPath].scripts = EmptyMap
        /\ tjson[MainPkgPath].bundleDependencies = Some(TRUE)

\* C5 amended: the main descriptor emitted by a successful export has name =
\* <original>-dynamic and scripts = {}; bundleDependencies is true after a
\* backend export and is what the source descriptor had after a frontend
\* export.
C5_MainDescriptorFieldsPerExporter ==
    pc = "done" =>
        /\ tjson[MainPkgPath].name = srcPkg.name \o <<"-dynamic">>
        /\ tjson[MainPkgPath].scripts = EmptyMap
        /\ kind = "backend" => tjson[MainPkgPath].bundleDependencies = Some(TRUE)
        /\ kind = "frontend" =>
              tjson[MainPkgPath].bundleDependencies = srcPkg.bundleDependencies

\* a successful backend export of a descriptor that had scripts
C5_Witness ==
    /\ pc = "done" /\ kind = "backend"
    /\ srcPkg.scripts # EmptyMap
    /\ tjson[MainPkgPath].bundleDependencies = Some(TRUE)

\* C6: every descriptor the customizer has written, of the main package and
\* of each embedded package, has devDependencies = {}, also when the after
\* hook has run.
C6_DevDependenciesEmpty ==
    /\ InSeq(Op("main_cust", 0), ops) =>
          tjson[MainPkgPath].devDependencies = EmptyMap
    /\ \A i \in 1..Len(embedded) :
          InSeq(Op("emb_cust", i), ops) =>
             tjson[<<"embedded", "/">> \o Slug(embedded[i].packageName)
                   \o <<"/", "package.json">>].devDependencies = EmptyMap

\* main and embedded descriptors that had devDependencies have been
\* customized, and the hook of the main package has hoisted peer dependencies
C6_Witness ==
    /\ pc = "done" /\ kind = "backend"
    /\ srcPkg.devDependencies # EmptyMap
    /\ \E i \in 1..Len(embedded) :
          /\ InSeq(Op("emb_cust", i), ops)
          /\ PackageJsonAt(embedded[i].dir).devDependencies # EmptyMap
    /\ Len(embPeer) > 0

---------------------------------------------------------------------------
(* Properties of the export: order of the stages *)

\* C7: in a backend export the stages customization of the main descriptor,
\* install, shared-leakage check, native-module scan, entrypoint validation
\* complete in this order, and each of them is started only when the one
\* before it has completed without error.
C7_StageOrder ==
    kind = "backend" =>
        LET chain == << "main_cust", "install", "leak", "native", "validate" >>
            rank(label) == CHOOSE r \in 1..Len(chain) : chain[r] = label
            staged(i) == InSeq(ops[i].op, chain)
        IN  /\ \A i, j \in 1..Len(ops) :
                  (i < j /\ staged(i) /\ staged(j)) =>
                      rank(ops[i].op) < rank(ops[j].op)
            /\ \A r \in 2..Len(chain) :
                  (pc = chain[r] \/ InSeq(Op(chain[r], 0), ops)) =>
                      /\ InSeq(Op(chain[r - 1], 0), ops)
                      /\ (pc = chain[r] => err = "")

\* a backend export that has run the whole chain
C7_Witness ==
    /\ kind = "backend" /\ pc = "done"
    /\ InSeq(Op("main_cust", 0), ops) /\ InSeq(Op("install", 0), ops)
    /\ InSeq(Op("leak", 0), ops) /\ InSeq(Op("native", 0), ops)
    /\ InSeq(Op("validate", 0), ops)

\* C8: in a backend export, when the pack of the main package starts every
\* resolved embedded package has been packed (or copied) and customized.
C8_EmbeddedBeforeMainPack ==
    (kind = "backend" /\ (pc = "main_pack" \/ InSeq(Op("main_pack", 0), ops))) =>
        \A i \in 1..Len(embedded) :
            /\ InSeq(Op("emb_pack", i), ops)
            /\ InSeq(Op("emb_cust", i), ops)

\* the pack of the main package is in progress and two embedded packages
\* have been processed
C8_Witness ==
    /\ kind = "backend" /\ pc = "main_pack"
    /\ Len(embedded) = 2
    /\ InSeq(Op("emb_cust", 2), ops)

\* C9: no two build, pack, customize or install operations are in progress
\* at the same time.
C9_OneOperationAtATime == Cardinality(running) <= 1

\* the install is in progress, after embedded packages and the main package
\* have been built, packed and customized
C9_Witness ==
    /\ pc = "install" /\ running = { Op("install", 0) }
    /\ Len(embedded) > 0
    /\ InSeq(Op("emb_build", 1), ops) /\ InSeq(Op("main_build", 0), ops)

---------------------------------------------------------------------------
(* Properties of the export: what it writes *)

\* C10 as stated: every removal and write of an export lands inside
\* dist-dynamic/ of the plugin directory.
C10_WritesInsideTarget ==
    \A w \in writes :
        Len(w) >= 3 /\ SubSeq(w, 1, 3) = PluginDir \o <<"/", "dist-dynamic">>

\* C10 amended: every removal and write of an export lands inside
\* dist-dynamic/, except in dist/ of a package that is built: of the plugin
\* directory (`yarn build` of a backend export with --build; the module
\* federation build of a frontend export, after the removal of dist/ with
\* --clean) and of an embedded package built in place with --build.
C10_WritesInsideTargetOrBuildOutput ==
    \A w \in writes :
        \/ Len(w) >= 3 /\ SubSeq(w, 1, 3) = PluginDir \o <<"/", "dist-dynamic">>
        \/ /\ w = PluginDir \o <<"/", "dist">>
           /\ \/ kind = "backend" /\ opts.build
              \/ kind = "frontend" /\ opts.generateModuleFederationAssets
        \/ /\ kind = "backend" /\ opts.build
           /\ \E i \in 1..Len(embedded) :
                 /\ ~embedded[i].alreadyPacked
                 /\ w = embedded[i].dir \o <<"/", "dist">>

\* a backend export with --clean, --build and the install has completed
C10_Witness ==
    /\ pc = "done" /\ kind = "backend"
    /\ opts.clean /\ opts.build /\ opts.install
    /\ Len(embedded) > 0
    /\ (PluginDir \o <<"/", "dist-dynamic", "/", "node_modules">>) \in writes

---------------------------------------------------------------------------
(* Properties of two export runs in a row *)

\* C11: when the export is run a second time on the same inputs, from the
\* dist-dynamic/ the first run left (cleaned or not), the package.json the
\* second run writes is the one the first run wrote.
C11_SecondRunSameDescriptor ==
    (firstMain # None /\ InSeq(Op("main_cust", 0), ops)) =>
        tjson[MainPkgPath] = firstMain[1]

\* a second backend run without --clean has completed on a target that held
\* embedded packages, hoisted peer dependencies and a lock file
C11_Witness ==
    /\ firstMain # None /\ pc = "done" /\ kind = "backend"
    /\ ~opts.clean /\ lockExisted
    /\ Len(embedded) > 0 /\ Len(embPeer) > 0
    /\ srcPkg.resolutions # None

---------------------------------------------------------------------------
(* Properties of the export in the worlds around the plugin *)

\* the directories of the packages resolved for embedding: the ones the
\* plugin's own dependencies resolve to, and the ones theirs resolve to
EmbedReach ==
    LET below(seeds, dirs) ==
            dirs \cup UNION { ResolvedDirs(PackageJsonAt(d),
                                           SeedList(PackageJsonAt(d), seeds, <<>>)) :
                              d \in dirs }
        from(seeds) == below(seeds, ResolvedDirs(srcPkg, seeds))
    IN  from(SeedList(srcPkg, opts.embedPackage, <<>>))

BundledInvolved ==
    \/ srcPkg.bundled
    \/ \E d \in EmbedReach : PackageJsonAt(d).bundled

\* C12: a backend export whose root descriptor is bundled, or that resolves
\* a bundled package for embedding, has failed as soon as the resolution is over.
C12_BundledRejected ==
    (kind = "backend" /\ pc # "start" /\ BundledInvolved) => err # ""

\* a backend export has failed on a bundled package reached through the
\* embedded sibling, the root descriptor not being bundled
C12_Witness ==
    /\ kind = "backend" /\ pc = "failed" /\ err = "EmbeddedPackageBundled"
    /\ ~srcPkg.bundled /\ ~PackageJsonAt(CommonDir).bundled
    /\ PackageJsonAt(LibDir).bundled
    /\ Has(srcPkg.dependencies, COMMON) /\ ~Has(srcPkg.dependencies, LIB)

\* the native packages of the installed tree that --allow-native-package
\* does not list
Forbidden == { n \in natives : ~InSeq(n, opts.allowNativePackage) }

\* C13 as stated: a backend export that ended with a native package in the
\* installed tree that is not allowed has failed with NativePackageForbidden,
\* its message listing these packages.
C13_NativeForbidden ==
    (kind = "backend" /\ pc \in { "done", "failed" } /\ Forbidden # {}) =>
        /\ err = "NativePackageForbidden"
        /\ offending = Forbidden

\* C13: a backend export that ended with such a package in the installed
\* tree, and that did not fail on the shared-package check made before the
\* scan, has failed with NativePackageForbidden, its message listing exactly
\* these packages; and this failure names no allowed package.
C13_NativeForbiddenUnlessLeak ==
    /\ (kind = "backend" /\ pc \in { "done", "failed" } /\ Forbidden # {}
        /\ err # "SharedPackageLeakage") =>
            /\ err = "NativePackageForbidden"
            /\ offending = Forbidden
    /\ err = "NativePackageForbidden" =>
            /\ offending # {}
            /\ \A n \in offending :
                  n \in natives /\ ~InSeq(n, opts.allowNativePackage)

\* an export has failed on a native package of the installed tree
C13_Witness ==
    /\ kind = "backend" /\ pc = "failed" /\ err = "NativePackageForbidden"
    /\ offending = { SQLITE } /\ opts.allowNativePackage = <<>>

---------------------------------------------------------------------------
(* Properties of the entrypoint validation *)

\* module m can be loaded: its source is javascript, or it is typescript and
\* the `.ts` extension is registered or a loader for it can be found
Loadable(m, e) == m.src = "js" \/ (m.src = "ts" /\ (e.tsExtension \/ e.tsLoader))

\* the modules the validation loads: the main module and the alpha submodule
\* when it exists
ToLoad(e) == { e.main } \cup (IF e.alpha = None THEN {} ELSE { e.alpha[1] })

\* C14: once the entrypoint validation has run, the export has returned
\* successfully iff every module to load has loaded and at least one of them
\* has a default export that is a plugin or an export dynamicPluginInstaller;
\* otherwise it has failed with InvalidPluginEntrypoint.
C14_EntrypointValidation ==
    entry # None =>
        LET accepted == /\ \A m \in ToLoad(entry[1]) : Loadable(m, entry[1])
                        /\ \E m \in ToLoad(entry[1]) : m.isPlugin \/ m.installer
        IN  /\ accepted => (pc = "done" /\ err = "")
            /\ ~accepted => (pc = "failed" /\ err = "InvalidPluginEntrypoint")

\* the export has returned for a plugin whose main module is typescript and
\* exports nothing, the alpha submodule carrying dynamicPluginInstaller
C14_Witness ==
    /\ entry # None /\ pc = "done"
    /\ entry[1].main.src = "ts" /\ ~entry[1].main.isPlugin /\ ~entry[1].main.installer
    /\ ~entry[1].tsExtension
    /\ entry[1].alpha # None /\ entry[1].alpha[1].installer

---------------------------------------------------------------------------
(* Properties of the failures of external tasks *)

\* C15: a step in which a build or an install fails leaves the export
\* failed, and no step is taken after it: nothing more is completed, written
\* or produced, and the export does not return.
C15_FailedTaskAborts ==
    [][ /\ (err' = "SubprocessFailed") => (pc' = "failed")
        /\ (err = "SubprocessFailed") =>
              /\ pc' = "failed" /\ err' = err
              /\ UNCHANGED << ops, writes, tjson, tfiles, tlock, produced >> ]_vars

\* the install of a backend export has failed after the lock file was handled
C15_Witness ==
    /\ kind = "backend" /\ pc = "failed" /\ err = "SubprocessFailed"
    /\ InSeq(Op("lock", 0), ops) /\ ~InSeq(Op("install", 0), ops)
    /\ <<"yarn-install.log">> \in tfiles

---------------------------------------------------------------------------
(* Properties of the lock file of the target *)

\* C16: the step that handles the lock file, taken on a target without a
\* lock file, leaves in the target a copy of the plugin directory's yarn.lock
\* if there is one, else a copy of the monorepo root's; with neither, the
\* export fails in that step and the target still has no lock file.
C16_LockFileCopied ==
    [][ (pc = "lock" /\ tlock = None) =>
            IF world.pluginLock # None
            THEN tlock' = world.pluginLock /\ pc' # "failed"
            ELSE IF world.rootLock # None
            THEN tlock' = world.rootLock /\ pc' # "failed"
            ELSE tlock' = None /\ pc' = "failed" /\ err' = "YarnLockNotFound" ]_vars

\* the plugin directory's lock file has been copied although the monorepo
\* root has one too
C16_Witness ==
    /\ InSeq(Op("lock", 0), ops) /\ ~lockExisted /\ pc = "install"
    /\ world.pluginLock # None /\ world.rootLock # None
    /\ world.pluginLock # world.rootLock
    /\ tlock = world.pluginLock

---------------------------------------------------------------------------
(* Properties of the frontend export *)

\* C17: a frontend export asked for neither Scalprum nor module federation
\* assets has failed with NoFrontendAssetsRequested as soon as it has taken a
\* step, without any producer invoked, any step completed and any path
\* removed, created or written.
C17_NoAssetsFailsFirst ==
    (kind = "frontend" /\ pc # "start"
     /\ ~opts.generateScalprumAssets /\ ~opts.generateModuleFederationAssets) =>
        /\ pc = "failed" /\ err = "NoFrontendAssetsRequested"
        /\ produced = {} /\ writes = {} /\ ops = <<>>
        /\ tjson = <<>>

\* such an export has failed, asked with --clean on a target left by a
\* previous export
C17_Witness ==
    /\ kind = "frontend" /\ pc = "failed" /\ err = "NoFrontendAssetsRequested"
    /\ opts.clean /\ tfiles = StaleFiles /\ tlock = StaleLock

\* the configuration the precedence of the claim chooses
ChosenScalprum ==
    IF opts.scalprumConfig # None THEN OrEmpty(world.scalprumFile)
    ELSE IF srcPkg.scalprum # None THEN srcPkg.scalprum[1]
    ELSE << Entry(<<"name">>, IF srcPkg.name = FrontendName
                              THEN <<"x", ".", "bar">> ELSE srcPkg.name),
            Entry(<<"exposedModules">>,
                  << Entry(<<"PluginRoot">>, <<"./src/index.ts">>) >>) >>

\* C18: the metadata the Scalprum producer is invoked with is the
\* configuration chosen by the precedence file, inline, default, with its
\* version set to the descriptor's version and its other fields as they
\* are; and the producer has been invoked in every export that requests
\* Scalprum assets and has reached the handling of the lock file.
C18_ScalprumPrecedence ==
    /\ \A p \in produced :
          p.producer = "scalprum" =>
             /\ Get(p.meta[1], <<"version">>) = srcPkg.version
             /\ Del(p.meta[1], <<"version">>) = Del(ChosenScalprum, <<"version">>)
             /\ p.out = InTarget(<<"dist-scalprum">>)
    /\ (kind = "frontend" /\ opts.generateScalprumAssets
        /\ pc \in { "lock", "install", "done" }) =>
          \E p \in produced : p.producer = "scalprum"

\* the producer has received the configuration of the file, the descriptor
\* having an inline configuration too, with the file's version replaced
C18_Witness ==
    /\ kind = "frontend" /\ opts.scalprumConfig # None
    /\ srcPkg.scalprum = Some(InlineConfig)
    /\ \E p \in produced :
          /\ p.producer = "scalprum"
          /\ Get(p.meta[1], <<"name">>) = <<"file", ".", "plugin">>
          /\ Get(p.meta[1], <<"version">>) = V1

---------------------------------------------------------------------------
(* Properties of the shared-package rules *)

\* the names the rules are tried on
TestNames == { BS, COMMON, LIB, SQLITE, BackendName }

\* name matches the entry of --shared-package written `written`: as a
\* regular expression when it is written /.../, else by equality
MatchesEntry(name, written) ==
    IF StartsWith(written, "/") /\ EndsWith(written, "/")
    THEN Includes(name, SliceInner(written))
    ELSE name = written

\* name matches the default include or an entry without '!', and no entry
\* with '!'
SharedAsWritten(name) ==
    /\ \/ Includes(name, <<"@", "backstage", "/">>)
       \/ \E i \in 1..Len(opts.sharedPackage) :
             /\ ~StartsWith(opts.sharedPackage[i], "!")
             /\ MatchesEntry(name, opts.sharedPackage[i])
    /\ ~\E i \in 1..Len(opts.sharedPackage) :
             /\ StartsWith(opts.sharedPackage[i], "!")
             /\ MatchesEntry(name, Slice1(opts.sharedPackage[i]))

\* C19 as stated: once the rules are built, a name is shared iff it matches
\* the default include or an entry without '!', and no entry with '!'.
C19_SharedIffRules ==
    (kind = "backend" /\ pc # "start" /\ InSeq(Op("resolve", 0), ops)) =>
        \A name \in TestNames :
            isPackageShared(name, rules) <=> SharedAsWritten(name)

\* C19: once the rules are built, a name is shared iff it matches the
\* default include or an entry without '!', matches no entry with '!', and
\* is not the name of an embedded package.
C19_SharedIffRulesAndNotEmbedded ==
    (kind = "backend" /\ pc # "start" /\ InSeq(Op("resolve", 0), ops)) =>
        \A name \in TestNames :
            isPackageShared(name, rules) <=>
                (SharedAsWritten(name) /\ ~InSeq(name, EmbeddedNames))

\* the rules are built from a regular expression that the name of the plugin
\* and the name of an embedded package match
C19_Witness ==
    /\ kind = "backend" /\ InSeq(Op("resolve", 0), ops)
    /\ opts.sharedPackage = << <<"/", "foo", "/">> >>
    /\ isPackageShared(BackendName, rules) /\ isPackageShared(BS, rules)
    /\ ~isPackageShared(LIB, rules)
    /\ InSeq(COMMON, EmbeddedNames) /\ ~isPackageShared(COMMON, rules)

---------------------------------------------------------------------------
(* Properties of the output of a successful export *)

\* the options of `plugin export` when none is given on the command line
DefaultOptions ==
    /\ ~opts.clean /\ opts.build /\ opts.install
    /\ opts.generateScalprumAssets /\ opts.generateModuleFederationAssets
    /\ opts.embedPackage = <<>> /\ opts.sharedPackage = <<>>
    /\ opts.suppressNativePackage = <<>> /\ opts.allowNativePackage = <<>>
    /\ opts.scalprumConfig = None

\* C20: when the export has returned, dist-dynamic/package.json exists; and
\* when it has returned for a frontend plugin exported with the default
\* options, the Scalprum producer has been invoked with
\* dist-dynamic/dist-scalprum as its output path and has completed.
C20_OutputOfSuccess ==
    pc = "done" =>
        /\ MainPkgPath \in DOMAIN tjson
        /\ InTarget(MainPkgPath) \in writes
        /\ (kind = "frontend" /\ DefaultOptions) =>
              /\ \E p \in produced :
                    /\ p.producer = "scalprum"
                    /\ p.out = Join(PluginDir, <<"dist-dynamic", "/", "dist-scalprum">>)
              /\ InSeq(Op("scalprum_build", 0), ops)
              /\ <<"dist-scalprum">> \in tfiles

\* a frontend export with the default options has returned
C20_Witness ==
    /\ pc = "done" /\ kind = "frontend" /\ DefaultOptions
    /\ tjson[MainPkgPath].name = FrontendName \o <<"-dynamic">>

---------------------------------------------------------------------------
(* Properties of the resolver of the embedded packages *)

\* C21: the list searchEmbedded returns holds no two entries with the same
\* directory, whatever the dependency graph (diamonds, packages reached
\* through several parents), and its entries are in the order in which the
\* depth-first walk met their directories first.
C21_NoDirTwiceInWalkOrder ==
    walk.st = "done" =>
        /\ \A i, j \in 1..Len(walk.result) :
              i # j => walk.result[i].dir # walk.result[j].dir
        /\ [i \in 1..Len(walk.result) |-> walk.result[i].dir] = walk.entered
        /\ searchEmbedded(srcPkg, opts.embedPackage, <<>>) = Ok(walk.result)

\* the registry package is a dependency of the plugin and of its common
\* library, and is entered below the common library, met first
C21_Witness ==
    /\ walk.st = "done"
    /\ Has(srcPkg.dependencies, LIB)
    /\ Len(walk.result) >= 3
    /\ \E i \in 1..Len(walk.result) :
          /\ walk.result[i].packageName = LIB
          /\ walk.result[i].parentPackageName = COMMON

\* C22: a call of the resolver on a package of role backend-plugin,
\* backend-plugin-module or node-library whose name ends with the suffix of
\* the role (-backend, -backend-module-<x>, -node) adds to its seed list
\* the names with -common and with -node in place of the suffix, each only
\* if it is not the name of the package and no package already resolved
\* has it; a call on a package of another role or of no role adds nothing.
C22_SiblingSeeds ==
    \A n \in 1..Len(walk.stack) :
        LET siblings(call) ==
                IF <<call.pkg.name, call.pkg.role>> \in
                       { <<BackendName, "backend-plugin">>,
                         <<ModuleName, "backend-plugin-module">>,
                         <<NODE, "node-library">> }
                THEN SelectSeq(<< COMMON, NODE >>,
                               LAMBDA s :
                                   /\ s # call.pkg.name
                                   /\ \A i \in 1..Len(call.alreadyResolved) :
                                          call.alreadyResolved[i].packageName # s)
                ELSE <<>>
            expected(call) == call.embedded = call.packagesToEmbed \o siblings(call)
        IN  expected(walk.stack[n])

\* the call on the node library adds the common library, not yet resolved,
\* and not the node library itself
C22_Witness ==
    \E n \in 1..Len(walk.stack) :
        /\ walk.stack[n].pkg.role = "node-library"
        /\ walk.stack[n].embedded = Append(walk.stack[n].packagesToEmbed, COMMON)
        /\ \A i \in 1..Len(walk.stack[n].packagesToEmbed) :
              walk.stack[n].packagesToEmbed[i] # COMMON

\* C28: the resolver terminates on every monorepo, with dependency cycles
\* among the embedded packages and back to the plugin: a call is only made
\* on a package whose directory is not in the list resolved so far, so no
\* directory is entered twice, and every walk comes to its end, with the
\* list of the first call or with an error.
C28_WalkTerminates ==
    /\ [](\A i, j \in 1..Len(walk.entered) :
              i # j => walk.entered[i] # walk.entered[j])
    /\ <>(walk.st \in { "done", "failed" })

\* the walk is over, after it came back to the plugin from the common
\* library and entered the plugin as an embedded package
C28_Witness ==
    /\ walk.st = "done"
    /\ \E i \in 1..Len(walk.entered) : walk.entered[i] = PluginDir
    /\ \E i \in 1..Len(walk.result) :
          /\ walk.result[i].dir = PluginDir
          /\ walk.result[i].parentPackageName = COMMON

---------------------------------------------------------------------------
(* Properties of the monorepo of the plugin *)

\* C23 as written: whenever two packages of the monorepo have the same
\* name, the backend export fails instead of completing.
C23_TwoOfOneNameFails ==
    (/\ kind = "backend"
     /\ \E i, j \in 1..Len(MonoRepoPackages) :
           /\ i # j
           /\ PackageJsonAt(MonoRepoPackages[i]).name =
                  PackageJsonAt(MonoRepoPackages[j]).name)
        => pc # "done"

\* C23: whenever the plugin depends on a name that two packages of the
\* monorepo have, and the export looks that name up among the packages of
\* the monorepo (the name is in the seed list of the resolver, or the
\* dependency uses the workspace protocol), the backend export does not
\* complete: it fails with DuplicateMonorepoPackage, unless a build or a
\* pack it runs before the lookup has failed.
C23_LookedUpTwiceFails ==
    \A i, j \in 1..Len(MonoRepoPackages) :
        LET lookedUp(name) ==
                /\ Has(srcPkg.dependencies, name)
                /\ \/ \E s \in 1..Len(SeedList(srcPkg, opts.embedPackage, <<>>)) :
                          SeedList(srcPkg, opts.embedPackage, <<>>)[s] = name
                   \/ StartsWith(Get(srcPkg.dependencies, name), "workspace:")
        IN  (/\ kind = "backend"
             /\ i # j
             /\ PackageJsonAt(MonoRepoPackages[i]).name =
                    PackageJsonAt(MonoRepoPackages[j]).name
             /\ lookedUp(PackageJsonAt(MonoRepoPackages[i]).name))
                => /\ pc # "done"
                   /\ pc = "failed" =>
                          err \in { "DuplicateMonorepoPackage", "SubprocessFailed" }

\* the export has failed on the common library, which two packages of the
\* monorepo are named like, when the customizer looked it up
C23_Witness ==
    /\ kind = "backend"
    /\ Len(MonoRepoPackages) = 3
    /\ srcPkg.name = PlainName
    /\ Has(srcPkg.dependencies, COMMON)
    /\ pc = "failed"
    /\ err = "DuplicateMonorepoPackage"

---------------------------------------------------------------------------
(* Properties of the workspace: dependencies *)

\* C24 as written: in the descriptor of a completed export, a dependency
\* that was workspace:^ is ^<v>, one that was workspace:~ is ~<v> and any
\* other workspace: dependency is <v>, the version of the package of that
\* name, whether it is embedded or not.
C24_RangeKept ==
    (pc = "done" /\ ~yarnV1) =>
        \A i \in 1..Len(srcPkg.dependencies) :
            LET from(dep, spec) ==
                    StartsWith(spec, "workspace:") =>
                        /\ Has(tjson[MainPkgPath].dependencies, dep)
                        /\ Get(tjson[MainPkgPath].dependencies, dep) =
                              IF spec \in { Workspace(<<"^">>), Workspace(<<"~">>) }
                              THEN StripPrefix(spec, "workspace:") \o V1
                              ELSE V1
            IN  from(srcPkg.dependencies[i].k, srcPkg.dependencies[i].v)

\* C24: in the descriptor of a completed export every workspace:
\* dependency of the plugin is rewritten: one on an embedded package to the
\* bare version <v> of that package whatever its range (and then, under
\* yarn v1, to the file: path of the embedded package); one on a package
\* that is only in the monorepo to ^<v> if it was workspace:^, to ~<v> if
\* it was workspace:~, and to <v> otherwise.  The export does not complete
\* with a workspace: dependency that is neither embedded nor the one
\* package of that name in the monorepo with a version that fits, and
\* UnresolvedWorkspaceDep is only raised for such a dependency.
C24_RangeKeptUnlessEmbedded ==
    LET fits(dir, detail) ==
            \/ detail \in { <<"^">>, <<"~">>, <<"*">>, dir }
            \/ detail = PackageJsonAt(dir).version
        named(dep) == { n \in 1..Len(MonoRepoPackages) :
                          PackageJsonAt(MonoRepoPackages[n]).name = dep }
        inMonoRepo(dep, detail) ==
            /\ Cardinality(named(dep)) = 1
            /\ \A n \in named(dep) : fits(MonoRepoPackages[n], detail)
        isEmbedded(dep) == \E e \in 1..Len(embedded) : embedded[e].packageName = dep
        expected(dep, detail) ==
            IF isEmbedded(dep)
            THEN IF yarnV1
                 THEN <<"file:", "./", "embedded", "/", "x", "-", "foo", "-common">>
                 ELSE V1
            ELSE IF detail \in { <<"^">>, <<"~">> } THEN detail \o V1
            ELSE V1
        emitted(p, dep) ==
            IF Has(p.dependencies, dep) THEN Get(p.dependencies, dep)
            ELSE Get(OrEmpty(p.peerDependencies), dep)
        rewritten(dep, detail) ==
            /\ isEmbedded(dep) \/ inMonoRepo(dep, detail)
            /\ emitted(tjson[MainPkgPath], dep) = expected(dep, detail)
        workspaceDeps == { i \in 1..Len(srcPkg.dependencies) :
                             StartsWith(srcPkg.dependencies[i].v, "workspace:") }
    IN  /\ pc = "done" =>
              \A i \in workspaceDeps :
                  rewritten(srcPkg.dependencies[i].k,
                            StripPrefix(srcPkg.dependencies[i].v, "workspace:"))
        /\ (pc = "failed" /\ err = "UnresolvedWorkspaceDep") =>
              \E i \in workspaceDeps :
                  /\ ~isEmbedded(srcPkg.dependencies[i].k)
                  /\ ~inMonoRepo(srcPkg.dependencies[i].k,
                                 StripPrefix(srcPkg.dependencies[i].v, "workspace:"))

\* a completed export of a plugin that depends by workspace:~ on the common
\* library, which is in the monorepo and is not embedded
C24_Witness ==
    /\ pc = "done"
    /\ kind = "backend"
    /\ embedded = <<>>
    /\ Has(srcPkg.dependencies, COMMON)
    /\ Get(srcPkg.dependencies, COMMON) = Workspace(<<"~">>)
    /\ Get(tjson[MainPkgPath].dependencies, COMMON) = <<"~">> \o V1

---------------------------------------------------------------------------
(* Properties of the peer dependencies hoisted from the embedded packages *)

---------------------------------------------------------------------------
(* Properties of the stubs of the suppressed native packages *)

\* C26: after a backend export, for every name of --suppress-native-package
\* the target holds embedded/<name>/package.json with the content
\* {name, main: "index.js"} and the file embedded/<name>/index.js, and the
\* resolutions of the main descriptor map the name to file:./embedded/<name>.
C26_SuppressedStubs ==
    (pc = "done" /\ kind = "backend") =>
        \A i \in 1..Len(opts.suppressNativePackage) :
            LET stub(name, dir) ==
                    /\ (dir \o <<"/", "package.json">>) \in DOMAIN tjson
                    /\ tjson[dir \o <<"/", "package.json">>] =
                          [name |-> name, main |-> <<"index", ".js">>]
                    /\ (dir \o <<"/", "index", ".js">>) \in tfiles
                    /\ tjson[MainPkgPath].resolutions # None
                    /\ Has(tjson[MainPkgPath].resolutions[1], name)
                    /\ Get(tjson[MainPkgPath].resolutions[1], name) =
                          <<"file:", "./">> \o dir
            IN  stub(opts.suppressNativePackage[i],
                     <<"embedded", "/">> \o opts.suppressNativePackage[i])

---------------------------------------------------------------------------
(* Properties of the failures before the target is prepared *)

\* C27: a backend export that fails at its entry, because the plugin is
\* bundled or because the resolution of the embedded packages fails, leaves
\* dist-dynamic/ as it is: nothing is removed (with --clean either),
\* created or written.
C27_EarlyFailureLeavesTarget ==
    [][ (kind = "backend" /\ pc = "start" /\ pc' = "failed") =>
            /\ err' \in { "BundledPackageRejected", "DuplicateMonorepoPackage",
                         "MissingWorkspacePackage", "WorkspaceVersionMismatch",
                         "ResolvedVersionMismatch", "EmbeddedPackageBundled",
                         "ModuleNotFound" }
            /\ UNCHANGED << tjson, tfiles, tlock, writes >> ]_vars

\* with --clean, the resolution has failed on a package that is not
\* installed, and what the export before left in the target is there
C27_Witness ==
    /\ kind = "backend" /\ opts.clean
    /\ pc = "failed" /\ err = "ModuleNotFound"
    /\ tfiles = StaleFiles /\ tlock = StaleLock
    /\ writes = {}

---------------------------------------------------------------------------
(* Properties of the dependencies on the embedded packages *)

\* C29: in a backend export every name of an embedded package is in the
\* exclude rules from the resolution on, and a dependency on an embedded
\* package is never moved to peerDependencies, in the main descriptor or in
\* the descriptor of an embedded package, whatever the include rules: it
\* stays in dependencies and is no peer dependency.
C29_EmbeddedNeverPeer ==
    kind = "backend" =>
        \A e \in 1..Len(embedded) :
            LET kept(source, path, name) ==
                    path \in DOMAIN tjson =>
                        /\ ~Has(OrEmpty(tjson[path].peerDependencies), name)
                        /\ Has(source.dependencies, name) =>
                              Has(tjson[path].dependencies, name)
                name == embedded[e].packageName
            IN  /\ \E x \in 1..Len(rules.exclude) :
                      ~rules.exclude[x].re /\ rules.exclude[x].pat = name
                /\ kept(srcPkg, MainPkgPath, name)
                /\ \A p \in 1..Len(embedded) :
                      kept(PackageJsonAt(embedded[p].dir), EmbeddedPkgPath(embedded[p]),
                           name)

\* a completed export with --shared-package lodash and --embed-package
\* lodash, of a plugin that depends on lodash, as its embedded common
\* library does
C29_Witness ==
    /\ pc = "done"
    /\ opts.sharedPackage = << LIB >>
    /\ Len(embedded) = 2
    /\ embedded[2].packageName = LIB
    /\ Has(srcPkg.dependencies, LIB)
    /\ Has(tjson[MainPkgPath].dependencies, LIB)
    /\ Has(tjson[EmbeddedPkgPath(embedded[1])].dependencies, LIB)

---------------------------------------------------------------------------
(* Properties of the retry of the entrypoint validation *)

\* C30: in one entrypoint validation the search for a typescript loader
\* followed by a second load of the module happens at most once: for the
\* first module that fails to load, and only if no `.ts` require extension
\* is registered; a load that fails after that (the main module loaded
\* again, or the alpha submodule) is not tried again and makes the export
\* fail with InvalidPluginEntrypoint; no module is loaded more than twice.
C30_RetryAtMostOnce ==
    entry # None =>
        LET retries(calls) == { i \in 1..Len(calls) : calls[i].retried }
            module(i) == IF i = 1 THEN entry[1].main ELSE entry[1].alpha[1]
            once(calls) ==
                /\ Len(calls) \in { 1, 2 }
                /\ Cardinality(retries(calls)) <= 1
                /\ \A i \in retries(calls) :
                      /\ ~entry[1].tsExtension
                      /\ module(i).src # "js"
                      /\ \A j \in 1..(i - 1) : module(j).src = "js"
                /\ \A i \in 1..Len(calls) :
                      calls[i].loads = IF calls[i].retried THEN 2 ELSE 1
                /\ \A i \in 1..Len(calls) :
                      ~calls[i].ok => /\ i = Len(calls)
                                      /\ pc = "failed"
                                      /\ err = "InvalidPluginEntrypoint"
        IN  once(requireCalls(entry[1]))

\* the main module is typescript and is loaded again once a loader is
\* registered; the alpha submodule then fails to load, once, and the export
\* fails
C30_Witness ==
    /\ entry # None
    /\ Len(requireCalls(entry[1])) = 2
    /\ requireCalls(entry[1])[1].retried /\ requireCalls(entry[1])[1].ok
    /\ ~requireCalls(entry[1])[2].ok
    /\ requireCalls(entry[1])[2].loads = 1
    /\ pc = "failed"

=============================================================================
